---- MODULE Spec2Model ----
(***************************************************************************)
(* A model of the security-response pipeline of falco-ai-security:         *)
(*   - the Execution Engine (backend/app/agents/execution_engine.py),      *)
(*   - the Command Mapper   (backend/app/agents/command_mapper.py),        *)
(*   - the Decision Agent   (backend/app/agents/ai_agent.py).              *)
(* The engine has no lock: its public calls, its monitor thread and its    *)
(* executor threads interleave at the statements that read or write the    *)
(* shared maps, so each of those statements (or run of statements that     *)
(* touches no shared state in between) is one action here.                 *)
(***************************************************************************)
EXTENDS Integers, Sequences, FiniteSets, TLC

\* ------------------------------------------------------------------ bounds
\* how many submit_command calls a behaviour makes (ids are 1..MaxSubmits)
MaxSubmits == 1
\* ExecutionEngine(max_concurrent_executions=...): the constructor's argument
MaxConcurrent == 1

\* ------------------------------------------------------------- enumerations
\* class CommandPriority
CommandPriority == {"critical", "high", "medium", "low", "info"}
\* class ExecutionMode
ExecutionMode == {"immediate", "scheduled", "manual", "conditional"}
\* class ApprovalStatus
ApprovalStatus == {"pending", "approved", "rejected", "auto_approved"}
\* class ExecutionStatus
ExecutionStatus == {"pending", "running", "completed", "failed", "timeout",
                    "cancelled", "rollback", "rollback_completed", "rollback_failed"}
\* MappedCommand.risk_level is a free string; these are the values the code tests
RiskLevels == {"low", "medium", "high", "critical"}

CommandIds == 1..MaxSubmits
\* callers of approve_command / reject_command
Users == {"alice", "bob"}
\* "no value" of an Optional field
None == "none"
\* an Optional record: the empty sequence for None, else the one-element sequence
Nothing == <<>>
Some(x) == <<x>>

\* The fields of a MappedCommand that the engine reads.  rollback_command and
\* success_criteria are kept as "present or not" (TRUE: a non-empty string / the
\* template's criteria list ["命令执行成功", "无错误输出"]).
MappedCommand(prio, exec_mode, risk, sudo, rollback, criteria) ==
    [priority |-> prio, execution_mode |-> exec_mode, risk_level |-> risk,
     requires_sudo |-> sudo, rollback_command |-> rollback,
     success_criteria |-> criteria]

\* The commands submitted to the running engine: what the mapper emits for
\* change_file_permissions and suspend_process (low risk), block_ip under the
\* malware rule (critical priority, medium risk) and a custom command of an
\* info-level finding (manual mode).
SubmittedCommands ==
    { MappedCommand("medium",   "immediate",   "low",    TRUE, FALSE, TRUE),
      MappedCommand("medium",   "conditional", "low",    TRUE, TRUE,  TRUE),
      MappedCommand("critical", "immediate",   "medium", TRUE, TRUE,  TRUE),
      MappedCommand("info",     "manual",      "medium", TRUE, FALSE, FALSE) }

\* ---------------------------------------------------------------- variables
VARIABLES
    config,               \* ExecutionEngine.config (the boolean keys)
    execution_contexts,   \* command id -> ExecutionContext (with its ExecutionResult)
    execution_queue,      \* the PriorityQueue: a set of <<priority number, id>>
    running_executions,   \* keys of the running-process map
    stats,                \* ExecutionEngine.stats
    audit,                \* the <<action, command id, reason>> entries _audit_log has written
    worker,               \* id -> where the executor thread running it stands
    process,              \* id -> state of its subprocess
    overdue,              \* ids whose elapsed time since start_time exceeds timeout_seconds
    canceller,            \* thread -> the id whose process it waits for in cancel_command (0: none)
    lastCall,             \* the last call of the public API and what it returned
    n_submitted,          \* submit_command calls so far
    now,                  \* the last value datetime.utcnow() returned to _audit_log
    stamped,              \* audit entries built by a thread and not yet handed to
                          \* the audit callback
    audit_log,            \* the audit entries the audit callback has received, in order
    callback_calls,       \* the calls made to the approval and notification callbacks
    escaped               \* an exception of a callback left the try statement around it

auditVars == <<now, stamped, audit_log, callback_calls, escaped>>

VARIABLES
    is_running,           \* ExecutionEngine.is_running
    stopping,             \* where the caller of ExecutionEngine.stop() stands, and
                          \* the commands it found queued when it called
    monitor_pc,           \* where the monitor thread stands in _monitor_executions
    agent_status,         \* AISecurityAgent.status
    iterating,            \* the iteration of the monitor thread over the context
                          \* map: none, or the map's size at its start and the
                          \* keys it has not visited yet
    agent_run,            \* AISecurityAgent.is_running, and the stop() calls that
                          \* wait for the cancelled tasks
    submitting,           \* the command a caller of submit_command has stored and
                          \* queued, its audit entry not written yet (or none)
    processor_pc          \* where the event processor task stands in its loop

lifeVars == <<is_running, stopping, monitor_pc, agent_status, iterating, agent_run,
             submitting, processor_pc>>

engineVars == <<config, execution_contexts, execution_queue, running_executions,
                stats, audit, worker, process, overdue, canceller, lastCall,
                n_submitted, auditVars, lifeVars>>

VARIABLES
    mode,                 \* AISecurityAgent.mode
    agent_config,         \* AISecurityAgent.config (risk_tolerance,
                          \* max_decision_history)
    decision_history,     \* AISecurityAgent.decision_history
    metrics,              \* AISecurityAgent.metrics (the counters)
    averages,             \* AISecurityAgent.metrics: average_response_time and
                          \* average_confidence_score, in units of 1 / Scale
    event_queue           \* AISecurityAgent.event_queue: an event stands as the
                          \* answer the analysis service gives for it

agentVars == <<mode, agent_config, decision_history, metrics, averages,
              event_queue>>

VARIABLES
    analysis_result,      \* the argument of the last map_analysis_to_commands call
    mapped_commands,      \* what that call returned
    command_history       \* CommandMapper.command_history

mapperVars == <<analysis_result, mapped_commands, command_history>>

VARIABLES
    callbacks,            \* callback name -> "none" (not set), "ok" or "raises"
    delivered             \* callback name -> the calls made to it so far

callbackVars == <<callbacks, delivered>>

vars == <<engineVars, agentVars, mapperVars, callbackVars>>


\* --------------------------------------------------------- engine: helpers
\* ExecutionEngine.__init__, self.config (the keys that are switches)
DefaultConfig ==
    [auto_approve_low_risk |-> TRUE, auto_approve_info |-> TRUE,
     require_approval_high_risk |-> TRUE, require_approval_critical |-> TRUE,
     enable_rollback |-> TRUE, dry_run_mode |-> FALSE]

\* ExecutionEngine.__init__, self.stats
InitialStats ==
    [total_executed |-> 0, successful_executions |-> 0, failed_executions |-> 0,
     rollbacks_performed |-> 0, auto_approved |-> 0, manual_approved |-> 0,
     rejected |-> 0]

\* ExecutionEngine._should_auto_approve, under configuration cfg
ShouldAutoApprove(cfg, command) ==
    IF command.risk_level = "low" /\ cfg.auto_approve_low_risk THEN TRUE
    ELSE IF command.priority = "info" /\ cfg.auto_approve_info THEN TRUE
    ELSE IF command.priority \in {"high", "critical"} /\ cfg.require_approval_high_risk
         THEN FALSE
    ELSE IF command.risk_level \in {"high", "critical"} /\ cfg.require_approval_critical
         THEN FALSE
    ELSE IF command.requires_sudo /\ command.risk_level # "low" THEN FALSE
    ELSE TRUE

\* ExecutionEngine._get_execution_priority (a smaller number is served first)
GetExecutionPriority(command) ==
    CASE command.priority = "critical" -> 1
      [] command.priority = "high"     -> 2
      [] command.priority = "medium"   -> 3
      [] command.priority = "low"      -> 4
      [] command.priority = "info"     -> 5
      [] OTHER                         -> 3

\* ExecutionEngine._check_dependencies / _check_conditions: both return True
CheckDependencies(command) == TRUE
CheckConditions(command) == TRUE

\* _can_execute without its approval test (a variant of the code, for comparison)
CanExecute_NoApprovalTest(context) ==
    /\ context.command.execution_mode # "manual"
    /\ (context.command.execution_mode = "conditional" => context.conditions_met)
    /\ context.dependencies_met

\* ExecutionEngine._can_execute
CanExecute(context) ==
    /\ context.approval_status \in {"approved", "auto_approved"}
    /\ context.command.execution_mode # "manual"
    /\ (context.command.execution_mode = "conditional" => context.conditions_met)
    /\ context.dependencies_met

\* ExecutionEngine._check_success_criteria, for a process that returned 0:
\* the criterion "无错误输出" fails when the process wrote to stderr
CheckSuccessCriteria(command, outcome) ==
    IF ~command.success_criteria THEN TRUE ELSE outcome # "zero_stderr"

\* ExecutionContext.__post_init__ with ExecutionResult(status=PENDING)
NewContext(command) ==
    [command |-> command, approval_status |-> "pending", approval_user |-> None,
     dependencies_met |-> TRUE, conditions_met |-> TRUE,
     status |-> "pending", end_time |-> FALSE, rollback_result |-> None,
     retry_count |-> 0]

\* get_nowait taking the entry of the least id whatever its priority (a
\* variant of the code, for comparison)
QueueHead_ById(q) ==
    CHOOSE e \in q : \A f \in q : e[2] <= f[2]

\* queue.PriorityQueue.get_nowait: the least <<priority, id>> tuple
QueueHead(q) ==
    CHOOSE e \in q : \A f \in q : e[1] < f[1] \/ (e[1] = f[1] /\ e[2] <= f[2])

\* The threads that run the engine's code: the caller of the public API, the
\* monitor thread, the executor thread that runs command c
ApiThread == <<"api", 0>>
MonitorThread == <<"monitor", 0>>
WorkerThread(c) == <<"worker", c>>
ThreadOf(t) == IF t = "monitor" THEN MonitorThread ELSE ApiThread

\* the behaviours of a callback that end in an exception
Raising == {"raises"}
\* what "except Exception" around each callback call catches
CaughtByExcept == {"raises"}
\* a callback call without the try statement around it (a variant of the
\* code, for comparison)
Escapes_NoExcept(cb) == callbacks[cb] \in Raising
\* "try: callback(...) except Exception as e: logger.error(...)": whether an
\* exception of callback cb leaves the statement
Escapes(cb) == callbacks[cb] \in Raising \ CaughtByExcept

\* the line an audit entry leaves in the log; of the details only
\* cancel_command's reason is kept
AuditEntry(action, id) == <<action, id, "">>
\* the entry _audit_log builds for the audit callback, with its timestamp
Stamped(t, time, entry) ==
    [thread |-> t, timestamp |-> time, action |-> entry[1], command_id |-> entry[2]]
\* _audit_log, its first half, for the entries thread t logs in turn: each is
\* built with the time utcnow() returns (successive calls return increasing
\* times) when an audit callback is set
Stamp(t, entries) ==
    /\ IF callbacks["audit"] = "none"
       THEN UNCHANGED <<now, stamped>>
       ELSE /\ now' = now + Len(entries)
            /\ stamped' = stamped \cup {Stamped(t, now + i, entries[i]) :
                                            i \in DOMAIN entries}
    /\ UNCHANGED audit_log
\* ExecutionEngine._audit_log for the entries thread t logs in turn: the entry
\* for the callback, the callback call inside try/except, the line in the log
AuditEntries(t, entries) ==
    /\ Stamp(t, entries)
    /\ audit' = IF Escapes("audit") THEN audit
                ELSE audit \cup {entries[i] : i \in DOMAIN entries}
\* the calls (<<callback, event, command id>>) an operation makes to the
\* callbacks that are set, beside those to the audit callback
CallbackCalls(calls) ==
    /\ callback_calls' = callback_calls \cup {k \in calls : callbacks[k[1]] # "none"}
    /\ escaped' = (escaped \/ Escapes("audit") \/ \E k \in calls : Escapes(k[1]))
\* _audit_log alone
AuditLog(t, action, id) ==
    /\ AuditEntries(t, <<AuditEntry(action, id)>>)
    /\ CallbackCalls({})
\* _audit_log followed by _send_notification
AuditNotify(t, action, event, id) ==
    /\ AuditEntries(t, <<AuditEntry(action, id)>>)
    /\ CallbackCalls({<<"notification", event, id>>})
\* cancel_command's reason: "执行超时" from the monitor's timeout scan
CancelReason(t) == IF t = "monitor" THEN "timeout" ELSE ""
AuditCancel(t, id) ==
    /\ AuditEntries(ThreadOf(t), << <<"COMMAND_CANCELLED", id, CancelReason(t)>> >>)
    /\ CallbackCalls({})

Exists(c) == c \in DOMAIN execution_contexts
StatusOf(c) == execution_contexts[c].status
WithResult(c, st) ==
    [execution_contexts EXCEPT ![c].status = st, ![c].end_time = TRUE]
Bump(s, key) == [s EXCEPT ![key] = @ + 1]

\* states of a subprocess: not spawned, running, exited 0 without / with stderr
\* output, exited non-zero, ended by a signal (a negative return code)
ProcessStates == {"none", "alive", "zero", "zero_stderr", "nonzero", "killed"}
\* positions of an executor thread in _execute_command
WorkerPcs == {"idle", "queued", "dry_run", "spawn", "wait", "timeout_kill",
              "finally", "finally_del", "post", "rollback", "done"}
ActiveWorkers == {c \in DOMAIN worker : worker[c] \notin {"idle", "queued", "done"}}

\* --------------------------------------------------- agent, mapper: Init
\* config['max_decision_history']
MaxDecisionHistory == 1000
\* AISecurityAgent.__init__
AgentInit ==
    /\ mode = "semi_auto"
    /\ agent_config = [risk_tolerance |-> "medium",
                       max_decision_history |-> MaxDecisionHistory]
    /\ decision_history = <<>>
    /\ metrics = [total_events_processed |-> 0, total_decisions_made |-> 0,
                  total_commands_executed |-> 0]
    /\ averages = [response_time |-> 0, confidence_score |-> 0]
    /\ event_queue = <<>>

\* the callbacks of the agent (decision) and of the engine (approval,
\* notification, audit)
CallbackNames == {"decision", "approval", "notification", "audit"}

\* AISecurityAgent.__init__ and ExecutionEngine.__init__: no callback is set
CallbackInit ==
    /\ callbacks = [cb \in CallbackNames |-> "none"]
    /\ delivered = [cb \in CallbackNames |-> 0]

\* CommandMapper.__init__
MapperInit ==
    /\ analysis_result = Nothing
    /\ mapped_commands = <<>>
    /\ command_history = <<>>

\* ------------------------------------------------------------ engine: Init
\* no stop() call is under way
NotStopping == [pc |-> "none", queued |-> {}, force |-> {}]

\* the engine and the agent after their start(): is_running is set, the monitor
\* thread is in its loop and not inside an iteration, the agent is RUNNING
LifeInit ==
    /\ is_running = TRUE
    /\ stopping = NotStopping
    /\ monitor_pc = "round"
    /\ agent_status = "running"
    /\ iterating = Nothing
    /\ agent_run = [is_running |-> TRUE, stops |-> 0]
    /\ submitting = Nothing
    /\ processor_pc = "test"

\* nothing audited, no callback called
AuditInit ==
    /\ now = 0
    /\ stamped = {}
    /\ audit_log = <<>>
    /\ callback_calls = {}
    /\ escaped = FALSE

EngineInit ==
    /\ config = DefaultConfig
    /\ execution_contexts = <<>>
    /\ execution_queue = {}
    /\ running_executions = {}
    /\ stats = InitialStats
    /\ audit = {}
    /\ worker = [c \in CommandIds |-> "idle"]
    /\ process = [c \in CommandIds |-> "none"]
    /\ overdue = {}
    /\ canceller = [t \in {"api", "monitor"} |-> 0]
    /\ lastCall = [op |-> "none", id |-> 0, ret |-> FALSE]
    /\ n_submitted = 0
    /\ AuditInit

\* ------------------------------------------------------ engine: public API
\* ExecutionEngine.update_config, for the switches of execution
UpdateConfig(key) ==
    /\ config' = [config EXCEPT ![key] = ~@]
    /\ UNCHANGED <<execution_contexts, execution_queue, running_executions, stats,
                   audit, auditVars, worker, process, overdue, canceller, lastCall, n_submitted, agentVars, mapperVars, callbackVars, lifeVars>>

\* What submit_command reads and writes
SubmitState ==
    [execution_contexts |-> execution_contexts, execution_queue |-> execution_queue,
     stats |-> stats, audit |-> audit, n_submitted |-> n_submitted,
     now |-> now, stamped |-> stamped, callback_calls |-> callback_calls,
     escaped |-> escaped]

\* ExecutionEngine.submit_command as a function of that state, for a command
\* whose command_id is id: the context is stored under that id, in the place
\* of a context the id had before
SubmitAs(st, cfg, command, id) ==
    LET auto == ShouldAutoApprove(cfg, command)
        context == [NewContext(command) EXCEPT
                       !.dependencies_met = CheckDependencies(command),
                       !.conditions_met = CheckConditions(command),
                       !.approval_status = IF auto THEN "auto_approved" ELSE @,
                       !.approval_user = IF auto THEN "system" ELSE @]
        \* the approval callback, called for a command left PENDING
        asked == ~auto /\ callbacks["approval"] # "none"
        \* _audit_log is reached, and it has an audit callback to call
        audited == ~(asked /\ Escapes("approval")) /\ callbacks["audit"] # "none"
        logged == ~(asked /\ Escapes("approval")) /\ ~Escapes("audit")
        entry == AuditEntry("COMMAND_SUBMITTED", id)
    IN [execution_contexts |-> (id :> context) @@ st.execution_contexts,
        execution_queue |->
            st.execution_queue \cup {<<GetExecutionPriority(command), id>>},
        stats |-> IF auto THEN Bump(st.stats, "auto_approved") ELSE st.stats,
        audit |-> IF logged THEN st.audit \cup {entry} ELSE st.audit,
        n_submitted |-> st.n_submitted + 1,
        now |-> IF audited THEN st.now + 1 ELSE st.now,
        stamped |-> IF audited
                    THEN st.stamped \cup {Stamped(ApiThread, st.now + 1, entry)}
                    ELSE st.stamped,
        callback_calls |->
            IF asked
            THEN st.callback_calls \cup {<<"approval", "APPROVAL_REQUEST", id>>}
            ELSE st.callback_calls,
        escaped |-> (st.escaped \/ (asked /\ Escapes("approval")) \/ Escapes("audit"))]

\* submit_command for a command with a fresh id (the mapper puts a microsecond
\* timestamp into it): the ids are numbered in the order of submission
SubmitTo(st, cfg, command) == SubmitAs(st, cfg, command, st.n_submitted + 1)

\* the engine's state becomes st
SubmitStateBecomes(st) ==
    /\ execution_contexts' = st.execution_contexts
    /\ execution_queue' = st.execution_queue
    /\ stats' = st.stats
    /\ audit' = st.audit
    /\ n_submitted' = st.n_submitted
    /\ now' = st.now
    /\ stamped' = st.stamped
    /\ callback_calls' = st.callback_calls
    /\ escaped' = st.escaped
    /\ UNCHANGED audit_log

\* ExecutionEngine.submit_command
SubmitCommand(command) ==
    /\ n_submitted < MaxSubmits
    /\ SubmitStateBecomes(SubmitTo(SubmitState, config, command))
    /\ UNCHANGED <<config, running_executions, worker, process, overdue,
                   canceller, lastCall, agentVars, mapperVars, callbackVars, lifeVars>>

\* approve_command without its "approval_status != PENDING" early return (a
\* variant of the code, for comparison)
ApproveCommand_NoPendingGuard(c, user) ==
    /\ IF Exists(c)
       THEN /\ execution_contexts' =
                   [execution_contexts EXCEPT ![c].approval_status = "approved",
                                              ![c].approval_user = user]
            /\ stats' = Bump(stats, "manual_approved")
            /\ AuditLog(ApiThread, "COMMAND_APPROVED", c)
            /\ lastCall' = [op |-> "approve", id |-> c, ret |-> TRUE]
       ELSE /\ lastCall' = [op |-> "approve", id |-> c, ret |-> FALSE]
            /\ UNCHANGED <<execution_contexts, stats, audit, auditVars>>
    /\ UNCHANGED <<config, execution_queue, running_executions, worker, process,
                   overdue, canceller, n_submitted, agentVars, mapperVars, callbackVars, lifeVars>>

\* ExecutionEngine.approve_command
ApproveCommand(c, user) ==
    /\ IF Exists(c) /\ execution_contexts[c].approval_status = "pending"
       THEN /\ execution_contexts' =
                   [execution_contexts EXCEPT ![c].approval_status = "approved",
                                              ![c].approval_user = user]
            /\ stats' = Bump(stats, "manual_approved")
            /\ AuditLog(ApiThread, "COMMAND_APPROVED", c)
            /\ lastCall' = [op |-> "approve", id |-> c, ret |-> TRUE]
       ELSE /\ lastCall' = [op |-> "approve", id |-> c, ret |-> FALSE]
            /\ UNCHANGED <<execution_contexts, stats, audit, auditVars>>
    /\ UNCHANGED <<config, execution_queue, running_executions, worker, process,
                   overdue, canceller, n_submitted, agentVars, mapperVars, callbackVars, lifeVars>>

\* ExecutionEngine.reject_command
RejectCommand(c, user) ==
    /\ IF Exists(c) /\ execution_contexts[c].approval_status = "pending"
       THEN /\ execution_contexts' =
                   [execution_contexts EXCEPT ![c].approval_status = "rejected",
                                              ![c].approval_user = user,
                                              ![c].status = "cancelled"]
            /\ stats' = Bump(stats, "rejected")
            /\ AuditLog(ApiThread, "COMMAND_REJECTED", c)
            /\ lastCall' = [op |-> "reject", id |-> c, ret |-> TRUE]
       ELSE /\ lastCall' = [op |-> "reject", id |-> c, ret |-> FALSE]
            /\ UNCHANGED <<execution_contexts, stats, audit, auditVars>>
    /\ UNCHANGED <<config, execution_queue, running_executions, worker, process,
                   overdue, canceller, n_submitted, agentVars, mapperVars, callbackVars, lifeVars>>

\* ExecutionEngine.cancel_command up to process.wait(): thread t looks the
\* command up, terminates its process when it is in the running map and then
\* waits for it; with no running process it goes straight to the result update.
CancelBeginOn(t, c) ==
    /\ canceller[t] = 0
    /\ Exists(c)
    /\ IF c \in running_executions
       THEN /\ process' = [process EXCEPT ![c] = IF @ = "alive" THEN "killed" ELSE @]
            /\ canceller' = [canceller EXCEPT ![t] = c]
            /\ UNCHANGED <<execution_contexts, audit, auditVars, lastCall>>
       ELSE /\ execution_contexts' = WithResult(c, "cancelled")
            /\ AuditCancel(t, c)
            /\ lastCall' = IF t = "api"
                           THEN [op |-> "cancel", id |-> c, ret |-> TRUE]
                           ELSE lastCall
            /\ UNCHANGED <<process, canceller>>
    /\ UNCHANGED <<config, execution_queue, running_executions, stats, worker,
                   overdue, n_submitted, agentVars, mapperVars, callbackVars>>

\* the same while no stop() is concerned
CancelBegin(t, c) == CancelBeginOn(t, c) /\ UNCHANGED lifeVars

\* ExecutionEngine.cancel_command after process.wait() returned: drop the
\* running record (a KeyError is swallowed), mark CANCELLED, audit, return True
CancelEnd(t) ==
    /\ canceller[t] # 0
    /\ LET c == canceller[t]
       IN /\ process[c] # "alive"
          /\ running_executions' = running_executions \ {c}
          /\ execution_contexts' = WithResult(c, "cancelled")
          /\ AuditCancel(t, c)
          /\ lastCall' = IF t = "api"
                         THEN [op |-> "cancel", id |-> c, ret |-> TRUE]
                         ELSE lastCall
    /\ canceller' = [canceller EXCEPT ![t] = 0]
    /\ UNCHANGED <<config, execution_queue, stats, worker, process, overdue,
                   n_submitted, agentVars, mapperVars, callbackVars, lifeVars>>

\* cancel_command called by an operator
CancelCommand(c) ==
    \/ CancelBegin("api", c)
    \/ /\ canceller["api"] = 0
       /\ ~Exists(c)
       /\ lastCall' = [op |-> "cancel", id |-> c, ret |-> FALSE]
       /\ UNCHANGED <<config, execution_contexts, execution_queue,
                      running_executions, stats, audit, auditVars, worker, process, overdue,
                      canceller, n_submitted, agentVars, mapperVars, callbackVars, lifeVars>>

\* ------------------------------------------------- engine: monitor thread
\* the dispatch with a head that is read and left in the queue (a variant of
\* the code, for comparison)
MonitorDispatch_Peek ==
    /\ canceller["monitor"] = 0
    /\ Cardinality(running_executions) < MaxConcurrent
    /\ execution_queue # {}
    /\ LET head == QueueHead(execution_queue)
           c == head[2]
       IN /\ worker' = IF Exists(c) /\ CanExecute(execution_contexts[c])
                       THEN [worker EXCEPT ![c] = "queued"]
                       ELSE worker
    /\ UNCHANGED <<config, execution_contexts, execution_queue, running_executions,
                   stats, audit, auditVars, process, overdue, canceller, lastCall,
                   n_submitted, agentVars, mapperVars, callbackVars, lifeVars>>

\* ExecutionEngine._monitor_executions, the dispatch half of one round: pop the
\* head of the queue and hand it to the executor when _can_execute allows;
\* a head that is not ready is dropped
MonitorDispatch ==
    /\ canceller["monitor"] = 0
    /\ Cardinality(running_executions) < MaxConcurrent
    /\ execution_queue # {}
    /\ LET head == QueueHead(execution_queue)
           c == head[2]
       IN /\ execution_queue' = execution_queue \ {head}
          /\ worker' = IF Exists(c) /\ CanExecute(execution_contexts[c])
                       THEN [worker EXCEPT ![c] = "queued"]
                       ELSE worker
    /\ UNCHANGED <<config, execution_contexts, running_executions, stats, audit, auditVars,
                   process, overdue, canceller, lastCall, n_submitted, agentVars, mapperVars, callbackVars, lifeVars>>

\* ExecutionEngine._check_execution_timeouts, for one command found RUNNING
\* past its timeout: the monitor thread itself runs cancel_command
MonitorTimeoutScan(c) ==
    /\ Exists(c)
    /\ StatusOf(c) = "running"
    /\ c \in overdue
    /\ CancelBegin("monitor", c)

\* _cleanup_old_contexts, for a context whose end_time is older than
\* max_history_age_hours: by then no thread works on it any more
CleanupOldContext(c) ==
    /\ Exists(c)
    /\ StatusOf(c) \in {"completed", "failed", "timeout", "cancelled"}
    /\ execution_contexts[c].end_time
    /\ worker[c] \in {"idle", "done"}
    /\ \A t \in DOMAIN canceller : canceller[t] # c
    /\ execution_contexts' =
           [d \in DOMAIN execution_contexts \ {c} |-> execution_contexts[d]]
    /\ UNCHANGED <<config, execution_queue, running_executions, stats, audit, auditVars,
                   worker, process, overdue, canceller, lastCall, n_submitted, agentVars, mapperVars, callbackVars, lifeVars>>

\* ------------------------------------------------ engine: executor threads
\* _execute_command returns: nothing reads the exit code or measures the
\* command's running time any more (that a signal ended the process stays known)
Forget(c) ==
    /\ process' = [process EXCEPT ![c] = IF @ = "killed" THEN @ ELSE "none"]
    /\ overdue' = overdue \ {c}

\* the except-Exception handler of _execute_command
ExceptionPath(c) ==
    /\ execution_contexts' = WithResult(c, "failed")
    /\ stats' = Bump(Bump(stats, "total_executed"), "failed_executions")
    /\ running_executions' = running_executions \ {c}
    /\ AuditNotify(WorkerThread(c), "COMMAND_FAILED", "EXECUTION_FAILED", c)
    /\ worker' = [worker EXCEPT ![c] = "done"]
    /\ Forget(c)

\* _execute_command starting on a pool without a limit of threads (a variant
\* of the code, for comparison)
WorkerStart_NoPool(c) ==
    /\ worker[c] = "queued"
    /\ execution_contexts' = [execution_contexts EXCEPT ![c].status = "running"]
    /\ overdue' = overdue \ {c}
    /\ AuditNotify(WorkerThread(c), "COMMAND_STARTED", "EXECUTION_STARTED", c)
    /\ worker' = [worker EXCEPT ![c] = IF config.dry_run_mode THEN "dry_run"
                                       ELSE "spawn"]
    /\ UNCHANGED <<config, execution_queue, running_executions, stats, process,
                   canceller, lastCall, n_submitted, agentVars, mapperVars, callbackVars, lifeVars>>

\* _execute_command starts on a free thread of the pool (max_workers threads):
\* status RUNNING, start_time, COMMAND_STARTED; then the dry-run test
WorkerStart(c) ==
    /\ worker[c] = "queued"
    /\ Cardinality(ActiveWorkers) < MaxConcurrent
    /\ execution_contexts' = [execution_contexts EXCEPT ![c].status = "running"]
    /\ overdue' = overdue \ {c}
    /\ AuditNotify(WorkerThread(c), "COMMAND_STARTED", "EXECUTION_STARTED", c)
    /\ worker' = [worker EXCEPT ![c] = IF config.dry_run_mode THEN "dry_run"
                                       ELSE "spawn"]
    /\ UNCHANGED <<config, execution_queue, running_executions, stats, process,
                   canceller, lastCall, n_submitted, agentVars, mapperVars, callbackVars, lifeVars>>

\* the dry-run branch after its sleep: COMPLETED without a subprocess
WorkerDryRun(c) ==
    /\ worker[c] = "dry_run"
    /\ execution_contexts' = WithResult(c, "completed")
    /\ stats' = Bump(Bump(stats, "total_executed"), "successful_executions")
    /\ AuditNotify(WorkerThread(c), "COMMAND_COMPLETED", "EXECUTION_COMPLETED", c)
    /\ worker' = [worker EXCEPT ![c] = "done"]
    /\ Forget(c)
    /\ UNCHANGED <<config, execution_queue, running_executions, canceller,
                   lastCall, n_submitted, agentVars, mapperVars, callbackVars, lifeVars>>

\* subprocess.Popen succeeds and the process is recorded as running
WorkerSpawn(c) ==
    /\ worker[c] = "spawn"
    /\ process' = [process EXCEPT ![c] = "alive"]
    /\ running_executions' = running_executions \cup {c}
    /\ worker' = [worker EXCEPT ![c] = "wait"]
    /\ UNCHANGED <<config, execution_contexts, execution_queue, stats, audit, auditVars,
                   overdue, canceller, lastCall, n_submitted, agentVars, mapperVars, callbackVars, lifeVars>>

\* subprocess.Popen raises (the execution error of the handler at the end)
WorkerSpawnError(c) ==
    /\ worker[c] = "spawn"
    /\ ExceptionPath(c)
    /\ UNCHANGED <<config, execution_queue, canceller, lastCall, n_submitted, agentVars, mapperVars, callbackVars, lifeVars>>

\* the subprocess ends by itself
ProcessExit(c, outcome) ==
    /\ process[c] = "alive"
    /\ process' = [process EXCEPT ![c] = outcome]
    /\ UNCHANGED <<config, execution_contexts, execution_queue,
                   running_executions, stats, audit, auditVars, worker, overdue, canceller,
                   lastCall, n_submitted, agentVars, mapperVars, callbackVars, lifeVars>>

\* time passes the command's timeout_seconds while it is being executed
Tick(c) ==
    /\ worker[c] \in {"dry_run", "spawn", "wait"}
    /\ c \notin overdue
    /\ overdue' = overdue \cup {c}
    /\ UNCHANGED <<config, execution_contexts, execution_queue,
                   running_executions, stats, audit, auditVars, worker, process, canceller,
                   lastCall, n_submitted, agentVars, mapperVars, callbackVars, lifeVars>>

\* process.communicate returns: return code, COMPLETED or FAILED, the counters
WorkerCommunicate(c) ==
    /\ worker[c] = "wait"
    /\ process[c] \notin {"none", "alive"}
    /\ LET command == execution_contexts[c].command
           ok == process[c] \in {"zero", "zero_stderr"}
           met == CheckSuccessCriteria(command, process[c])
       IN /\ execution_contexts' =
                 WithResult(c, IF ok /\ met THEN "completed" ELSE "failed")
          /\ stats' = IF ok /\ met THEN Bump(stats, "successful_executions")
                      ELSE IF ok
                      THEN Bump(Bump(stats, "successful_executions"),
                                "failed_executions")
                      ELSE Bump(stats, "failed_executions")
    /\ worker' = [worker EXCEPT ![c] = "finally"]
    /\ UNCHANGED <<config, execution_queue, running_executions, audit, auditVars, process,
                   overdue, canceller, lastCall, n_submitted, agentVars, mapperVars, callbackVars, lifeVars>>

\* process.communicate raises something else than TimeoutExpired (text=True
\* and output that does not decode)
WorkerCommunicateError(c) ==
    /\ worker[c] = "wait"
    /\ process[c] \notin {"none", "alive"}
    /\ ExceptionPath(c)
    /\ UNCHANGED <<config, execution_queue, canceller, lastCall, n_submitted, agentVars, mapperVars, callbackVars, lifeVars>>

\* process.communicate raises TimeoutExpired: SIGTERM to the process group,
\* then five seconds of sleep (and SIGKILL)
WorkerTimeoutExpired(c) ==
    /\ worker[c] = "wait"
    /\ process[c] = "alive"
    /\ c \in overdue
    /\ process' = [process EXCEPT ![c] = "killed"]
    /\ worker' = [worker EXCEPT ![c] = "timeout_kill"]
    /\ UNCHANGED <<config, execution_contexts, execution_queue,
                   running_executions, stats, audit, auditVars, overdue, canceller, lastCall,
                   n_submitted, agentVars, mapperVars, callbackVars, lifeVars>>

\* the rest of the TimeoutExpired handler: status TIMEOUT
WorkerTimeoutMark(c) ==
    /\ worker[c] = "timeout_kill"
    /\ execution_contexts' = WithResult(c, "timeout")
    /\ stats' = Bump(stats, "failed_executions")
    /\ worker' = [worker EXCEPT ![c] = "finally"]
    /\ UNCHANGED <<config, execution_queue, running_executions, audit, auditVars, process,
                   overdue, canceller, lastCall, n_submitted, agentVars, mapperVars, callbackVars, lifeVars>>

\* finally: "if command_id in self.running_executions"
WorkerFinallyTest(c) ==
    /\ worker[c] = "finally"
    /\ worker' = [worker EXCEPT ![c] = IF c \in running_executions
                                       THEN "finally_del" ELSE "post"]
    /\ UNCHANGED <<config, execution_contexts, execution_queue,
                   running_executions, stats, audit, auditVars, process, overdue, canceller,
                   lastCall, n_submitted, agentVars, mapperVars, callbackVars, lifeVars>>

\* finally: "del self.running_executions[command_id]"; when cancel_command
\* deleted the key in between, the KeyError reaches the except-Exception handler
WorkerFinallyDel(c) ==
    /\ worker[c] = "finally_del"
    /\ IF c \in running_executions
       THEN /\ running_executions' = running_executions \ {c}
            /\ worker' = [worker EXCEPT ![c] = "post"]
            /\ UNCHANGED <<execution_contexts, stats, audit, auditVars, process, overdue>>
       ELSE ExceptionPath(c)
    /\ UNCHANGED <<config, execution_queue, canceller, lastCall, n_submitted, agentVars, mapperVars, callbackVars, lifeVars>>

\* the rollback test taking TIMEOUT like FAILED (a variant of the code, for
\* comparison)
WorkerPost_RollbackOnTimeout(c) ==
    /\ worker[c] = "post"
    /\ stats' = Bump(stats, "total_executed")
    /\ IF /\ StatusOf(c) \in {"failed", "timeout"}
          /\ execution_contexts[c].command.rollback_command
          /\ config.enable_rollback
       THEN /\ worker' = [worker EXCEPT ![c] = "rollback"]
            /\ UNCHANGED <<audit, auditVars, process, overdue>>
       ELSE /\ worker' = [worker EXCEPT ![c] = "done"]
            /\ AuditNotify(WorkerThread(c), "COMMAND_COMPLETED", "EXECUTION_COMPLETED", c)
            /\ Forget(c)
    /\ UNCHANGED <<config, execution_contexts, execution_queue,
                   running_executions, canceller, lastCall, n_submitted, agentVars, mapperVars, callbackVars, lifeVars>>

\* after the finally: total_executed, then the rollback test; without a
\* rollback the COMMAND_COMPLETED audit entry ends the execution
WorkerPost(c) ==
    /\ worker[c] = "post"
    /\ stats' = Bump(stats, "total_executed")
    /\ IF /\ StatusOf(c) = "failed"
          /\ execution_contexts[c].command.rollback_command
          /\ config.enable_rollback
       THEN /\ worker' = [worker EXCEPT ![c] = "rollback"]
            /\ UNCHANGED <<audit, auditVars, process, overdue>>
       ELSE /\ worker' = [worker EXCEPT ![c] = "done"]
            /\ AuditNotify(WorkerThread(c), "COMMAND_COMPLETED", "EXECUTION_COMPLETED", c)
            /\ Forget(c)
    /\ UNCHANGED <<config, execution_contexts, execution_queue,
                   running_executions, canceller, lastCall, n_submitted, agentVars, mapperVars, callbackVars, lifeVars>>

\* _execute_rollback returns (ROLLBACK_COMPLETED on exit 0, else
\* ROLLBACK_FAILED) and its result is attached to the parent result
WorkerRollback(c, outcome) ==
    /\ worker[c] = "rollback"
    /\ execution_contexts' = [execution_contexts EXCEPT ![c].rollback_result = outcome]
    /\ stats' = IF outcome = "rollback_completed"
                THEN Bump(stats, "rollbacks_performed") ELSE stats
    /\ AuditEntries(WorkerThread(c), <<AuditEntry("ROLLBACK_EXECUTED", c),
                                       AuditEntry("COMMAND_COMPLETED", c)>>)
    /\ CallbackCalls({<<"notification", "EXECUTION_COMPLETED", c>>})
    /\ worker' = [worker EXCEPT ![c] = "done"]
    /\ Forget(c)
    /\ UNCHANGED <<config, execution_queue, running_executions, canceller,
                   lastCall, n_submitted, agentVars, mapperVars, callbackVars, lifeVars>>

\* ------------------------------------------------------------ engine: Next
Init == EngineInit /\ AgentInit /\ MapperInit /\ CallbackInit /\ LifeInit

Next ==
    \/ \E key \in {"enable_rollback", "dry_run_mode"} : UpdateConfig(key)
    \/ \E command \in SubmittedCommands : SubmitCommand(command)
    \/ \E c \in CommandIds, u \in Users : ApproveCommand(c, u)
    \/ \E c \in CommandIds, u \in Users : RejectCommand(c, u)
    \/ \E c \in CommandIds : CancelCommand(c)
    \/ CancelEnd("api")
    \/ MonitorDispatch
    \/ \E c \in CommandIds : MonitorTimeoutScan(c)
    \/ CancelEnd("monitor")
    \/ \E c \in CommandIds : CleanupOldContext(c)
    \/ \E c \in CommandIds : WorkerStart(c)
    \/ \E c \in CommandIds : WorkerDryRun(c)
    \/ \E c \in CommandIds : WorkerSpawn(c)
    \/ \E c \in CommandIds : WorkerSpawnError(c)
    \/ \E c \in CommandIds, o \in {"zero", "zero_stderr", "nonzero"} : ProcessExit(c, o)
    \/ \E c \in CommandIds : Tick(c)
    \/ \E c \in CommandIds : WorkerCommunicate(c)
    \/ \E c \in CommandIds : WorkerCommunicateError(c)
    \/ \E c \in CommandIds : WorkerTimeoutExpired(c)
    \/ \E c \in CommandIds : WorkerTimeoutMark(c)
    \/ \E c \in CommandIds : WorkerFinallyTest(c)
    \/ \E c \in CommandIds : WorkerFinallyDel(c)
    \/ \E c \in CommandIds : WorkerPost(c)
    \/ \E c \in CommandIds, o \in {"rollback_completed", "rollback_failed"} :
           WorkerRollback(c, o)


Spec == Init /\ [][Next]_vars

\* ===================================================== the queue of the engine
\* Several commands in the engine at once: submit_command with ids the caller
\* chose, approve_command, the monitor's dispatch and executor threads that run
\* a command to its end (a subprocess that exits with 0, or a dry run).

\* how many commands a behaviour of the queue submits
MaxQueued == 2
QueueIds == 1..MaxQueued

\* one auto-approved command of each priority, a command that waits for an
\* operator's approval and an approved command of manual mode
QueueCommands ==
    { MappedCommand(prio, "immediate", "low", FALSE, FALSE, FALSE) :
          prio \in CommandPriority }
    \cup { MappedCommand("medium", "immediate", "medium", TRUE, FALSE, FALSE),
           MappedCommand("low", "manual", "low", FALSE, FALSE, FALSE) }

\* ExecutionEngine.__init__ with room for MaxQueued commands
QueueInit ==
    /\ config = DefaultConfig
    /\ execution_contexts = <<>>
    /\ execution_queue = {}
    /\ running_executions = {}
    /\ stats = InitialStats
    /\ audit = {}
    /\ worker = [c \in QueueIds |-> "idle"]
    /\ process = [c \in QueueIds |-> "none"]
    /\ overdue = {}
    /\ canceller = [t \in {"api", "monitor"} |-> 0]
    /\ lastCall = [op |-> "none", id |-> 0, ret |-> FALSE]
    /\ n_submitted = 0
    /\ AuditInit
    /\ AgentInit
    /\ MapperInit
    /\ CallbackInit
    /\ LifeInit

\* submit_command of a command whose command_id no context has yet
QueueSubmit(command, id) ==
    /\ n_submitted < MaxQueued
    /\ ~Exists(id)
    /\ SubmitStateBecomes(SubmitAs(SubmitState, config, command, id))
    /\ UNCHANGED <<config, running_executions, worker, process, overdue,
                   canceller, lastCall, agentVars, mapperVars, callbackVars, lifeVars>>

\* the steps of an executor thread on a command that is not cancelled and
\* does not time out
QueueWorker(c) ==
    \/ WorkerStart(c)
    \/ WorkerDryRun(c)
    \/ WorkerSpawn(c)
    \/ ProcessExit(c, "zero")
    \/ WorkerCommunicate(c)
    \/ WorkerFinallyTest(c)
    \/ WorkerFinallyDel(c)
    \/ WorkerPost(c)

QueueNext ==
    \/ UpdateConfig("dry_run_mode")
    \/ \E command \in QueueCommands, id \in QueueIds : QueueSubmit(command, id)
    \/ \E c \in QueueIds : ApproveCommand(c, "alice")
    \/ MonitorDispatch
    \/ \E c \in QueueIds : QueueWorker(c)

SpecQueue == QueueInit /\ [][QueueNext]_vars

\* The same, with the scheduling the engine has while it runs: the monitor
\* thread makes a round every second, and an executor thread that has a step
\* to take takes it.
SpecQueueFair ==
    /\ QueueInit /\ [][QueueNext]_vars
    /\ WF_vars(MonitorDispatch)
    /\ \A c \in QueueIds : WF_vars(QueueWorker(c))

\* ------------------------------------------- the callbacks of the engine
\* The queue of the engine with its three callbacks set: what each callback
\* receives, and callbacks that raise.

\* _audit_log, its second half: a thread hands the oldest entry it has built
\* to the audit callback
AuditDeliver ==
    /\ \E e \in stamped :
           /\ \A f \in stamped : f.thread = e.thread => e.timestamp <= f.timestamp
           /\ audit_log' = Append(audit_log, e)
           /\ stamped' = stamped \ {e}
    /\ UNCHANGED <<config, execution_contexts, execution_queue, running_executions,
                   stats, audit, worker, process, overdue, canceller, lastCall,
                   n_submitted, now, callback_calls, escaped, agentVars,
                   mapperVars, callbackVars, lifeVars>>

\* the engine as AISecurityAgent.__init__ leaves it: ExecutionEngine() and then
\* set_callbacks with an approval, a notification and an audit callback; each
\* of them returns or raises
CallbacksInit ==
    /\ config = DefaultConfig
    /\ execution_contexts = <<>>
    /\ execution_queue = {}
    /\ running_executions = {}
    /\ stats = InitialStats
    /\ audit = {}
    /\ worker = [c \in QueueIds |-> "idle"]
    /\ process = [c \in QueueIds |-> "none"]
    /\ overdue = {}
    /\ canceller = [t \in {"api", "monitor"} |-> 0]
    /\ lastCall = [op |-> "none", id |-> 0, ret |-> FALSE]
    /\ n_submitted = 0
    /\ AuditInit
    /\ AgentInit
    /\ MapperInit
    /\ callbacks \in {cbs \in [CallbackNames -> {"none", "ok", "raises"}] :
                         /\ cbs["decision"] = "none"
                         /\ \A cb \in CallbackNames \ {"decision"} : cbs[cb] # "none"}
    /\ delivered = [cb \in CallbackNames |-> 0]
    /\ LifeInit

\* a command that is auto-approved and one that waits for an operator
CallbackCommands ==
    { MappedCommand("low", "immediate", "low", FALSE, FALSE, FALSE),
      MappedCommand("medium", "immediate", "medium", TRUE, FALSE, FALSE) }

\* the steps of an executor thread on a command that runs a subprocess to
\* its end
CallbacksWorker(c) ==
    \/ WorkerStart(c)
    \/ WorkerSpawn(c)
    \/ ProcessExit(c, "zero")
    \/ WorkerCommunicate(c)
    \/ WorkerFinallyTest(c)
    \/ WorkerFinallyDel(c)
    \/ WorkerPost(c)

\* thread t is not inside _audit_log: it has handed over the entry it built
HandedOver(t) == \A e \in stamped : e.thread # t

\* a thread returns from _audit_log before it takes its next step
CallbacksNext ==
    \/ \E command \in CallbackCommands, id \in QueueIds :
           HandedOver(ApiThread) /\ QueueSubmit(command, id)
    \/ \E c \in QueueIds : HandedOver(ApiThread) /\ ApproveCommand(c, "alice")
    \/ MonitorDispatch
    \/ \E c \in QueueIds : HandedOver(WorkerThread(c)) /\ CallbacksWorker(c)
    \/ AuditDeliver

SpecCallbacks == CallbacksInit /\ [][CallbacksNext]_vars

\* ------------------------------------------------ approval policy at submit
\* Every priority, risk level and elevation flag a submitted command can have
\* (execution mode, rollback and criteria play no part in the approval)
AnyCommands ==
    { MappedCommand(prio, "immediate", risk, sudo, FALSE, TRUE) :
          prio \in CommandPriority, risk \in RiskLevels, sudo \in BOOLEAN }

\* the approval switches of ExecutionEngine.config
ApprovalKeys == {"auto_approve_low_risk", "auto_approve_info",
                 "require_approval_high_risk", "require_approval_critical"}

\* update_config on the approval switches and submit_command on any command
SubmitNext ==
    \/ \E key \in ApprovalKeys : UpdateConfig(key)
    \/ \E command \in AnyCommands : SubmitCommand(command)

SpecSubmit == Init /\ [][SubmitNext]_vars

\* ----------------------------------------------------------- decision agent
\* class AgentMode
AgentMode == {"passive", "semi_auto", "auto", "learning"}
\* AISecurityAgent.config['risk_tolerance']: "low, medium, high"
RiskTolerances == {"low", "medium", "high"}
\* config['decision_confidence_threshold'] = 0.7 and
\* config['auto_execute_threshold'] = 0.9, in hundredths
DecisionConfidenceThreshold == 70
AutoExecuteThreshold == 90
\* events one behaviour of the agent processes
MaxEvents == 1
\* commands the mapper returned for one finding
MaxMapped == 2

\* str.lower() on the words of the model that have upper-case letters
Lower(str) ==
    CASE str = "HIGH"          -> "high"
      [] str = "Critical"      -> "critical"
      [] str = "RM"            -> "rm"
      [] str = "-RF"           -> "-rf"
      [] str = "Service Crash" -> "service crash"
      [] str = "Service Compromise" -> "service compromise"
      [] OTHER                 -> str

\* the findings of the analysis service: confidence in hundredths, risk level
\* as the service spells it
Confidences == {69, 70, 89, 90, 91}
FindingRisks == {"info", "low", "medium", "HIGH", "Critical", "unknown"}
Findings == [confidence_score : Confidences, risk_level : FindingRisks]

\* the commands the mapper returned for a finding
AgentCommands ==
    { MappedCommand("medium", "immediate", "low",      TRUE,  TRUE,  TRUE),
      MappedCommand("medium", "immediate", "low",      FALSE, FALSE, TRUE),
      MappedCommand("high",   "immediate", "low",      FALSE, TRUE,  TRUE),
      MappedCommand("medium", "manual",    "medium",   TRUE,  FALSE, TRUE),
      MappedCommand("high",   "immediate", "high",     FALSE, TRUE,  TRUE),
      MappedCommand("high",   "immediate", "critical", TRUE,  FALSE, TRUE) }
MappedLists == UNION { [1..n -> AgentCommands] : n \in 0..MaxMapped }

\* _should_auto_execute with the confidence test "<=" (a variant of the code,
\* for comparison)
ShouldAutoExecute_StrictThreshold(m, cfg, analysis, commands) ==
    IF m # "auto" THEN FALSE
    ELSE IF analysis.confidence_score <= AutoExecuteThreshold THEN FALSE
    ELSE IF \E i \in DOMAIN commands :
                \/ commands[i].risk_level \in {"high", "critical"}
                \/ commands[i].requires_sudo /\ commands[i].risk_level # "low"
         THEN FALSE
    ELSE IF cfg.risk_tolerance = "low"
              /\ Lower(analysis.risk_level) \notin {"low", "info"} THEN FALSE
    ELSE IF cfg.risk_tolerance = "medium"
              /\ Lower(analysis.risk_level) \in {"critical"} THEN FALSE
    ELSE TRUE

\* AISecurityAgent._should_auto_execute, in mode m with configuration cfg
ShouldAutoExecute(m, cfg, analysis, commands) ==
    IF m # "auto" THEN FALSE
    ELSE IF analysis.confidence_score < AutoExecuteThreshold THEN FALSE
    ELSE IF \E i \in DOMAIN commands :
                \/ commands[i].risk_level \in {"high", "critical"}
                \/ commands[i].requires_sudo /\ commands[i].risk_level # "low"
         THEN FALSE
    ELSE IF cfg.risk_tolerance = "low"
              /\ Lower(analysis.risk_level) \notin {"low", "info"} THEN FALSE
    ELSE IF cfg.risk_tolerance = "medium"
              /\ Lower(analysis.risk_level) \in {"critical"} THEN FALSE
    ELSE TRUE

\* _analyze_and_decide with the confidence test "<=" (a variant of the code,
\* for comparison)
AnalyzeAndDecide_StrictThreshold(m, cfg, analysis, commands) ==
    IF analysis = Nothing THEN Nothing
    ELSE IF analysis[1].confidence_score <= DecisionConfidenceThreshold THEN Nothing
    ELSE Some([confidence_score |-> analysis[1].confidence_score,
               risk_level |-> analysis[1].risk_level,
               mapped_commands |-> commands,
               auto_execute |-> ShouldAutoExecute(m, cfg, analysis[1], commands)])

\* AISecurityAgent._analyze_and_decide from the analysis on: None when the
\* analysis failed or its confidence is under the decision threshold, else the
\* decision (its fields that are computed from state)
AnalyzeAndDecide(m, cfg, analysis, commands) ==
    IF analysis = Nothing THEN Nothing
    ELSE IF analysis[1].confidence_score < DecisionConfidenceThreshold THEN Nothing
    ELSE Some([confidence_score |-> analysis[1].confidence_score,
               risk_level |-> analysis[1].risk_level,
               mapped_commands |-> commands,
               auto_execute |-> ShouldAutoExecute(m, cfg, analysis[1], commands)])

\* the test before _execute_decision without the auto_execute flag (a variant
\* of the code, for comparison)
Executed_AnyDecision(decision, commands) ==
    /\ decision # Nothing
    /\ commands # <<>>

\* _analyze_and_decide, "if auto_execute and mapped_commands": whether the
\* decision's commands go to the engine
Executed(decision, commands) ==
    /\ decision # Nothing
    /\ decision[1].auto_execute
    /\ commands # <<>>

\* AISecurityAgent._execute_decision: submit_command for each command in turn
RECURSIVE ExecuteDecision(_, _, _)
ExecuteDecision(st, cfg, commands) ==
    IF commands = <<>> THEN st
    ELSE ExecuteDecision(SubmitTo(st, cfg, Head(commands)), cfg, Tail(commands))

\* list[-n:] of a list longer than n, for n >= 0: the last n entries, and the
\* whole list for n = 0 (-0 is 0, and list[0:] is the list)
LastFrom(list, n) ==
    IF n = 0 THEN list ELSE SubSeq(list, Len(list) - n + 1, Len(list))

\* _save_decision keeping the oldest entries (a variant of the code, for
\* comparison)
SaveDecision_KeepOldest(history, decision) ==
    LET appended == Append(history, decision)
    IN IF Len(appended) > agent_config.max_decision_history
       THEN SubSeq(appended, 1, agent_config.max_decision_history)
       ELSE appended

\* AISecurityAgent._save_decision
SaveDecision(history, decision) ==
    LET appended == Append(history, decision)
    IN IF Len(appended) > agent_config.max_decision_history
       THEN LastFrom(appended, agent_config.max_decision_history)
       ELSE appended

\* set_mode whose AUTO branch leaves the engine's configuration as it is (a
\* variant of the code, for comparison)
SetMode_AutoKeepsConfig(m) ==
    /\ mode' = m
    /\ config' = IF m = "passive"
                 THEN [config EXCEPT !.auto_approve_low_risk = FALSE,
                                     !.auto_approve_info = FALSE]
                 ELSE config
    /\ UNCHANGED <<execution_contexts, execution_queue, running_executions, stats,
                   audit, auditVars, worker, process, overdue, canceller, lastCall,
                   n_submitted, agent_config, decision_history, metrics, averages,
                   event_queue, mapperVars, callbackVars, lifeVars>>

\* AISecurityAgent.set_mode: AUTO and PASSIVE also set the engine's
\* auto-approval switches
SetMode(m) ==
    /\ mode' = m
    /\ config' = IF m = "auto"
                 THEN [config EXCEPT !.auto_approve_low_risk = TRUE,
                                     !.auto_approve_info = TRUE]
                 ELSE IF m = "passive"
                 THEN [config EXCEPT !.auto_approve_low_risk = FALSE,
                                     !.auto_approve_info = FALSE]
                 ELSE config
    /\ UNCHANGED <<execution_contexts, execution_queue, running_executions, stats,
                   audit, auditVars, worker, process, overdue, canceller, lastCall,
                   n_submitted, agent_config, decision_history, metrics, averages,
                   event_queue,
                   mapperVars, callbackVars, lifeVars>>

\* AISecurityAgent.update_config, for the risk tolerance
AgentUpdateConfig(tolerance) ==
    /\ agent_config' = [agent_config EXCEPT !.risk_tolerance = tolerance]
    /\ UNCHANGED <<engineVars, mode, decision_history, metrics, averages, event_queue,
                   mapperVars, callbackVars, lifeVars>>

\* what the analysis service answers for an event: None (the call failed) or
\* a finding
AnalysisAnswers == {Nothing} \cup {Some(f) : f \in Findings}

\* AISecurityAgent.process_security_event: the event joins the queue
ProcessSecurityEvent(analysis) ==
    /\ metrics.total_events_processed + Len(event_queue) < MaxEvents
    /\ event_queue' = Append(event_queue, analysis)
    /\ UNCHANGED <<engineVars, mode, agent_config, decision_history, metrics, averages,
                   mapperVars, callbackVars, lifeVars>>

\* AISecurityAgent.set_callbacks, for the decision callback: a callback that
\* returns or one that raises
SetCallbacks(behaviour) ==
    /\ callbacks' = [callbacks EXCEPT !["decision"] = behaviour]
    /\ UNCHANGED <<engineVars, agentVars, mapperVars, delivered>>

\* One round of _event_processor on an event of the queue, from the point
\* where the analysis service answered (a finding, or None for a failure) and
\* the mapper returned commands: decide, execute an auto-executed decision,
\* count, save, call the decision callback (an exception of the callback is
\* caught and logged); the moving averages of the metrics and the position
\* of the processor task are left to the caller
ProcessEventOn(commands) ==
    /\ event_queue # <<>>
    /\ event_queue' = Tail(event_queue)
    /\ LET analysis == Head(event_queue)
           decision == AnalyzeAndDecide(mode, agent_config, analysis, commands)
           executed == Executed(decision, commands)
       IN /\ IF executed
             THEN SubmitStateBecomes(ExecuteDecision(SubmitState, config, commands))
             ELSE UNCHANGED <<execution_contexts, execution_queue, stats, audit, auditVars,
                              n_submitted>>
          /\ metrics' =
                 [total_events_processed |-> metrics.total_events_processed + 1,
                  total_decisions_made |->
                      metrics.total_decisions_made
                          + IF decision # Nothing THEN 1 ELSE 0,
                  total_commands_executed |->
                      metrics.total_commands_executed
                          + IF executed THEN Len(commands) ELSE 0]
          /\ decision_history' = IF decision # Nothing
                                 THEN SaveDecision(decision_history, decision[1])
                                 ELSE decision_history
          /\ delivered' = IF decision # Nothing /\ callbacks["decision"] # "none"
                          THEN Bump(delivered, "decision")
                          ELSE delivered
    /\ UNCHANGED <<config, running_executions, worker, process, overdue, canceller,
                   lastCall, mode, agent_config, mapperVars, callbacks>>

\* the same round seen as one step, without the moving averages
ProcessEvent(commands) ==
    ProcessEventOn(commands) /\ UNCHANGED <<lifeVars, averages>>

AgentNext ==
    \/ \E m \in AgentMode : SetMode(m)
    \/ \E tolerance \in RiskTolerances : AgentUpdateConfig(tolerance)
    \/ \E behaviour \in {"ok", "raises"} : SetCallbacks(behaviour)
    \/ \E analysis \in AnalysisAnswers : ProcessSecurityEvent(analysis)
    \/ \E commands \in MappedLists : ProcessEvent(commands)

SpecAgent == Init /\ [][AgentNext]_vars

\* ----------------------------------------------------------- command mapper
\* Text is a sequence of tokens: a token is a word, one of the punctuation
\* marks the code looks for, a blank " ", a line break "<nl>", one of the
\* words the extraction patterns start with ("<run>" for 运行, "<exec>" for
\* 执行, "<use-cmd>" for 使用命令, "<cmd:>" for 命令：, "<exec:>" for 执行：),
\* "<bt>" for a backtick or "<pad>" for a run of 494 letters.  The text is
\* the tokens written one after the other; no word of the model has a
\* denylisted phrase inside it or across its border with a neighbour.

\* CommandMapper.max_commands_per_analysis
MaxCommandsPerAnalysis == 10
\* the length limit of _is_command_safe
MaxCommandLength == 500
\* _generate_custom_commands skips a step of at most this many characters
MinStepLength == 10
\* how many fragments a remediation step of the model is made of
MaxFragments == 2

\* len() of a token
TokenLen(t) ==
    CASE t = "<pad>"     -> 494
      [] t = "<run>"     -> 2
      [] t = "<exec>"    -> 2
      [] t = "<use-cmd>" -> 4
      [] t = "<cmd:>"    -> 3
      [] t = "<exec:>"   -> 3
      [] t = "<nl>"      -> 1
      [] t = "<bt>"      -> 1
      [] OTHER           -> Len(t)

\* len() of a text
RECURSIVE TextLen(_)
TextLen(text) == IF text = <<>> THEN 0 ELSE TokenLen(Head(text)) + TextLen(Tail(text))

\* str.lower() of a text
LowerText(text) == [i \in DOMAIN text |-> Lower(text[i])]

\* "sub in text" of Python
Contains(sub, text) ==
    \E i \in 1..(Len(text) - Len(sub) + 1) : SubSeq(text, i, i + Len(sub) - 1) = sub

\* CommandMapper.dangerous_commands
DangerousCommands ==
    { <<"rm", " ", "-rf">>, <<"dd", " ", "if=">>, <<"mkfs">>, <<"fdisk">>,
      <<"parted">>, <<"shutdown">>, <<"reboot">>, <<"halt">>, <<"poweroff">>,
      <<"passwd">>, <<"userdel">>, <<"groupdel">> }

\* dangerous_chars of _is_command_safe
DangerousChars == {"&&", "||", ";", "|", ">", ">>", "<", "<bt>", "$("}

\* _is_command_safe comparing the denylist with the command as written, not
\* with its lower case (a variant of the code, for comparison)
IsCommandSafe_CaseSensitive(command) ==
    /\ \A dangerous \in DangerousCommands : ~Contains(dangerous, command)
    /\ \A i \in DOMAIN command : command[i] \notin DangerousChars
    /\ ~(TextLen(command) > MaxCommandLength)

\* CommandMapper._is_command_safe
IsCommandSafe(command) ==
    /\ \A dangerous \in DangerousCommands : ~Contains(dangerous, LowerText(command))
    /\ \A i \in DOMAIN command : command[i] \notin DangerousChars
    /\ ~(TextLen(command) > MaxCommandLength)

\* \s of the patterns
IsSpace(t) == t \in {" ", "<nl>"}
\* the last position of the run of white space that starts at position i
\* (i - 1 when there is none)
SpaceRunEnd(text, i) ==
    CHOOSE j \in (i - 1)..Len(text) :
        /\ \A k \in i..j : IsSpace(text[k])
        /\ j < Len(text) => ~IsSpace(text[j + 1])
\* the last position of the line that position i is on
LineEnd(text, i) ==
    CHOOSE j \in i..Len(text) :
        /\ \A k \in i..j : text[k] # "<nl>"
        /\ j < Len(text) => text[j + 1] = "<nl>"

\* keyword \s+ `([^`]+)` matched with the keyword at position i: the group, as
\* <<first, last>> positions, or <<>> when there is no match at i
QuotedGroupAt(text, keyword, i) ==
    LET j == SpaceRunEnd(text, i + 1)
        open == j + 1
        closes == {k \in (open + 1)..Len(text) : text[k] = "<bt>"}
    IN IF /\ text[i] = keyword /\ j >= i + 1
          /\ open <= Len(text) /\ text[open] = "<bt>"
          /\ closes # {}
          /\ (CHOOSE k \in closes : \A m \in closes : k <= m) >= open + 2
       THEN <<open + 1, (CHOOSE k \in closes : \A m \in closes : k <= m) - 1>>
       ELSE <<>>

\* keyword \s* ([^\n]+) matched with the keyword at position i: \s* takes all
\* the white space it can and gives back, from the end of the text, up to the
\* last blank
LabelledGroupAt(text, keyword, i) ==
    LET j == SpaceRunEnd(text, i + 1)
        blanks == {p \in (i + 1)..j : text[p] = " "}
    IN IF text[i] # keyword THEN <<>>
       ELSE IF j < Len(text) THEN <<j + 1, LineEnd(text, j + 1)>>
       ELSE IF blanks # {}
       THEN LET p == CHOOSE q \in blanks : \A r \in blanks : r <= q
            IN <<p, LineEnd(text, p)>>
       ELSE <<>>

\* command_patterns of _extract_command_from_text, in the order of the code
CommandPatterns ==
    << [kind |-> "quoted",   keyword |-> "<run>"],
       [kind |-> "quoted",   keyword |-> "<exec>"],
       [kind |-> "quoted",   keyword |-> "<use-cmd>"],
       [kind |-> "labelled", keyword |-> "<cmd:>"],
       [kind |-> "labelled", keyword |-> "<exec:>"] >>

GroupAt(text, pattern, i) ==
    IF pattern.kind = "quoted" THEN QuotedGroupAt(text, pattern.keyword, i)
    ELSE LabelledGroupAt(text, pattern.keyword, i)

\* re.search(pattern, text): group 1 of the leftmost match, as Some(text), or
\* Nothing
Search(pattern, text) ==
    LET starts == {i \in DOMAIN text : GroupAt(text, pattern, i) # <<>>}
    IN IF starts = {} THEN Nothing
       ELSE LET i == CHOOSE k \in starts : \A m \in starts : k <= m
                g == GroupAt(text, pattern, i)
            IN Some(SubSeq(text, g[1], g[2]))

\* str.strip()
RECURSIVE Strip(_)
Strip(text) ==
    IF text = <<>> THEN text
    ELSE IF IsSpace(Head(text)) THEN Strip(Tail(text))
    ELSE IF IsSpace(text[Len(text)]) THEN Strip(SubSeq(text, 1, Len(text) - 1))
    ELSE text

\* CommandMapper._extract_command_from_text, from pattern number n on:
\* Some(command) or Nothing (None)
RECURSIVE ExtractFrom(_, _)
ExtractFrom(text, n) ==
    IF n > Len(CommandPatterns) THEN Nothing
    ELSE LET match == Search(CommandPatterns[n], text)
         IN IF match # Nothing
               /\ \A dangerous \in DangerousCommands :
                      ~Contains(dangerous, Strip(match[1]))
            THEN Some(Strip(match[1]))
            ELSE ExtractFrom(text, n + 1)

ExtractCommandFromText(text) == ExtractFrom(text, 1)

\* the characters CommandTemplate._sanitize_params removes, as tokens
SanitizedChars == {";", "&", "|", "<bt>", "$", "(", ")", "{", "}", "[", "]", "<", ">",
                   "&&", "||", ">>", "$("}

\* re.sub(r'[;&|`$(){}\[\]<>]', '', value)
RECURSIVE RemoveDangerous(_)
RemoveDangerous(text) ==
    IF text = <<>> THEN text
    ELSE IF Head(text) \in SanitizedChars THEN RemoveDangerous(Tail(text))
    ELSE <<Head(text)>> \o RemoveDangerous(Tail(text))

\* the tokens shlex.quote leaves unquoted: words of letters, digits and @%+=:,./-
PlainWords == {"nginx", "falco", "reboot", "uptime", "id", "rm", "-rf", "RM", "-RF",
               "5", "2026-01-01T00:00:00", "/tmp/security_logs.log",
               "security@company.com", "None"}

\* shlex.quote (no text of the model has a single quote in it)
ShlexQuote(text) ==
    IF text = <<>> THEN <<"''">>
    ELSE IF \A i \in DOMAIN text : text[i] \in PlainWords THEN text
    ELSE <<"'">> \o text \o <<"'">>

\* a parameter value: a str, or another object with the text str() gives it
StrValue(text) == [is_str |-> TRUE, text |-> text]
OtherValue(text) == [is_str |-> FALSE, text |-> text]

\* CommandTemplate._sanitize_params, for one value
SanitizeParam(value) ==
    IF value.is_str THEN ShlexQuote(RemoveDangerous(value.text)) ELSE value.text

\* CommandMapper._initialize_command_templates: the templates of the
\* two service-anomaly rules and the two generic ones; "{name}" is a replacement
\* field.  The other templates are formatted and checked the same way.
CommandTemplates ==
    [ stop_service |->
          [template |-> <<"systemctl", " ", "stop", " ", "{service_name}">>,
           required_params |-> {"{service_name}"},
           risk_level |-> "high", requires_sudo |-> TRUE,
           rollback_command |-> Some(<<"systemctl", " ", "start", " ", "{service_name}">>)],
      disable_service |->
          [template |-> <<"systemctl", " ", "disable", " ", "{service_name}">>,
           required_params |-> {"{service_name}"},
           risk_level |-> "high", requires_sudo |-> TRUE,
           rollback_command |-> Some(<<"systemctl", " ", "enable", " ", "{service_name}">>)],
      restart_service |->
          [template |-> <<"systemctl", " ", "restart", " ", "{service_name}">>,
           required_params |-> {"{service_name}"},
           risk_level |-> "medium", requires_sudo |-> TRUE, rollback_command |-> Nothing],
      collect_logs |->
          [template |-> <<"journalctl", " ", "-u", " ", "{service_name}", " ",
                          "--since", " ", "'", "{since_time}", "'", " ", ">", " ",
                          "{output_file}">>,
           required_params |-> {"{service_name}", "{since_time}", "{output_file}"},
           risk_level |-> "low", requires_sudo |-> TRUE, rollback_command |-> Nothing],
      monitor_process |->
          [template |-> <<"watch", " ", "-n", " ", "{interval}", " ", "'", "ps",
                          " ", "aux", " ", "|", " ", "grep", " ",
                          "{process_name}", "'">>,
           required_params |-> {"{process_name}"},
           risk_level |-> "low", requires_sudo |-> FALSE, rollback_command |-> Nothing],
      send_alert |->
          [template |-> <<"echo", " ", "'", "{message}", "'", " ", "|", " ", "mail",
                          " ", "-s", " ", "'", "{subject}", "'", " ", "{email}">>,
           required_params |-> {"{message}", "{subject}", "{email}"},
           risk_level |-> "low", requires_sudo |-> FALSE, rollback_command |-> Nothing],
      log_incident |->
          [template |-> <<"echo", " ", "'[", "{timestamp}", "]", " ",
                          "SECURITY_INCIDENT:", " ", "{incident_details}", "'", " ",
                          ">>", " ", "/var/log/security/incidents.log">>,
           required_params |-> {"{timestamp}", "{incident_details}"},
           risk_level |-> "low", requires_sudo |-> TRUE, rollback_command |-> Nothing] ]

\* CommandMapper._initialize_mapping_rules: the service-anomaly rules
MappingRules ==
    << [keywords |-> {"service failure", "service crash"},
        commands |-> <<"restart_service", "collect_logs", "monitor_process">>,
        priority |-> "medium", execution_mode |-> "immediate"],
       [keywords |-> {"service compromise", "service hijack"},
        commands |-> <<"stop_service", "disable_service", "send_alert">>,
        priority |-> "high", execution_mode |-> "immediate"] >>

\* CommandMapper._extract_command_params: replacement field -> value
ExtractCommandParams(command_name, analysis) ==
    CASE command_name \in {"stop_service", "restart_service", "disable_service"} ->
             IF analysis.service # Nothing
             THEN [p \in {"{service_name}"} |-> analysis.service[1]]
             ELSE <<>>
      [] command_name = "collect_logs" ->
             [p \in {"{service_name}", "{since_time}", "{output_file}"} |->
                 CASE p = "{service_name}" -> StrValue(<<"falco">>)
                   [] p = "{since_time}" -> StrValue(<<"1", " ", "hour", " ", "ago">>)
                   [] p = "{output_file}" -> StrValue(<<"/tmp/security_logs.log">>)]
      [] command_name = "monitor_process" ->
             [p \in {"{interval}"} |-> StrValue(<<"5">>)]
      [] command_name = "send_alert" ->
             [p \in {"{message}", "{subject}", "{email}"} |->
                 CASE p = "{message}" -> StrValue(analysis.analysis_summary)
                   [] p = "{subject}" ->
                          StrValue(<<"alert:", " ", analysis.risk_level>>)
                   [] p = "{email}" -> StrValue(<<"security@company.com">>)]
      [] command_name = "log_incident" ->
             [p \in {"{timestamp}", "{incident_details}"} |->
                 CASE p = "{timestamp}" -> StrValue(<<"2026-01-01T00:00:00">>)
                   [] p = "{incident_details}" -> StrValue(<<"{", "json", "}">>)]

\* the replacement fields of the templates
ReplacementFields ==
    {"{service_name}", "{since_time}", "{output_file}", "{interval}",
     "{process_name}", "{message}", "{subject}", "{email}", "{timestamp}",
     "{incident_details}"}

\* str.format on a template
RECURSIVE Format(_, _)
Format(template, values) ==
    IF template = <<>> THEN <<>>
    ELSE (IF Head(template) \in DOMAIN values
          THEN values[Head(template)] ELSE <<Head(template)>>)
         \o Format(Tail(template), values)

\* CommandTemplate.format_command: Nothing for the ValueError of a missing
\* required parameter (and the KeyError of a missing optional one)
FormatCommand(template, params) ==
    IF \E p \in template.required_params : p \notin DOMAIN params THEN Nothing
    ELSE IF \E i \in DOMAIN template.template :
                /\ template.template[i] \in ReplacementFields
                /\ template.template[i] \notin DOMAIN params
         THEN Nothing
    ELSE Some(Format(template.template,
                     [p \in DOMAIN params |-> SanitizeParam(params[p])]))

\* CommandMapper._determine_priority
DeterminePriority(risk_level) ==
    CASE risk_level \in {"critical", "severe"} -> "critical"
      [] risk_level = "high"   -> "high"
      [] risk_level = "medium" -> "medium"
      [] risk_level = "low"    -> "low"
      [] risk_level = "info"   -> "info"
      [] OTHER                 -> "medium"

\* CommandMapper._determine_execution_mode
DetermineExecutionMode(risk_level, context) ==
    IF risk_level \in {"critical", "severe", "high"} THEN "immediate"
    ELSE IF context.auto_execute THEN "immediate"
    ELSE IF risk_level = "medium" THEN "conditional"
    ELSE "manual"

\* " ".join(remediation_steps)
RECURSIVE JoinSteps(_)
JoinSteps(steps) ==
    IF steps = <<>> THEN <<>>
    ELSE IF Len(steps) = 1 THEN steps[1]
    ELSE steps[1] \o <<" ">> \o JoinSteps(Tail(steps))

\* CommandMapper._match_mapping_rules: the matched rules, in the table's
\* order (a keyword of the model is one token)
MatchMappingRules(analysis_summary, remediation_steps) ==
    LET full_text == LowerText(analysis_summary \o <<" ">> \o JoinSteps(remediation_steps))
    IN SelectSeq(MappingRules,
                 LAMBDA rule : \E i \in DOMAIN full_text : full_text[i] \in rule.keywords)

\* a MappedCommand with the identifier and the command text the mapper gives it
MapperCommand(command_id, command, prio, exec_mode, risk, sudo, rollback, criteria) ==
    [command_id |-> command_id, command |-> command, priority |-> prio,
     execution_mode |-> exec_mode, risk_level |-> risk, requires_sudo |-> sudo,
     rollback_command |-> rollback, success_criteria |-> criteria]

\* template.rollback_command.format(**params) of _create_mapped_command: the
\* parameters go in as extracted (str() of each); Nothing for the KeyError of
\* a field without a parameter
FormatRollback(rollback_command, params) ==
    IF \E i \in DOMAIN rollback_command :
           /\ rollback_command[i] \in ReplacementFields
           /\ rollback_command[i] \notin DOMAIN params
    THEN Nothing
    ELSE Some(Format(rollback_command, [p \in DOMAIN params |-> params[p].text]))

\* CommandMapper._create_mapped_command: Some(command), or Nothing for None
CreateMappedCommand(command_name, analysis, priority, execution_mode) ==
    LET template == CommandTemplates[command_name]
        params == ExtractCommandParams(command_name, analysis)
        formatted == FormatCommand(template, params)
        rollback == IF template.rollback_command = Nothing THEN Some(Nothing)
                    ELSE LET text == FormatRollback(template.rollback_command[1], params)
                         IN IF text = Nothing THEN Nothing ELSE Some(text)
    IN IF DOMAIN params = {} THEN Nothing
       ELSE IF formatted = Nothing THEN Nothing
       ELSE IF ~IsCommandSafe(formatted[1]) THEN Nothing
       ELSE IF rollback = Nothing THEN Nothing
       ELSE Some(MapperCommand(command_name, formatted[1], priority, execution_mode,
                               template.risk_level, template.requires_sudo,
                               rollback[1], TRUE))

\* the commands of one matched rule, from its command number n on
RECURSIVE RuleCommands(_, _, _, _)
RuleCommands(rule, n, analysis, context) ==
    IF n > Len(rule.commands) THEN <<>>
    ELSE LET created == CreateMappedCommand(rule.commands[n], analysis,
                                            rule.priority, rule.execution_mode)
         IN created \o RuleCommands(rule, n + 1, analysis, context)

\* the rule loop given up at the first rule that has a failed candidate
RECURSIVE RulesCommands_UntilFailure(_, _, _)
RulesCommands_UntilFailure(rules, analysis, context) ==
    IF rules = <<>> THEN <<>>
    ELSE LET created == RuleCommands(Head(rules), 1, analysis, context)
         IN IF Len(created) < Len(Head(rules).commands) THEN created
            ELSE created \o RulesCommands_UntilFailure(Tail(rules), analysis, context)

\* the commands of the matched rules
RECURSIVE RulesCommands(_, _, _)
RulesCommands(rules, analysis, context) ==
    IF rules = <<>> THEN <<>>
    ELSE RuleCommands(Head(rules), 1, analysis, context)
             \o RulesCommands(Tail(rules), analysis, context)

\* the command_id of the custom command of step number i (counted from 0)
CustomId(i) ==
    <<"custom_0", "custom_1", "custom_2", "custom_3", "custom_4", "custom_5",
      "custom_6", "custom_7", "custom_8", "custom_9", "custom_10", "custom_11",
      "custom_12", "custom_13">>[i + 1]

\* CommandMapper._generate_custom_commands, from step number n (from 1) on
RECURSIVE GenerateCustomCommands(_, _, _)
GenerateCustomCommands(steps, n, priority) ==
    IF n > Len(steps) THEN <<>>
    ELSE LET step == steps[n]
             command == IF TextLen(step) > MinStepLength
                        THEN ExtractCommandFromText(step) ELSE Nothing
         IN (IF command # Nothing /\ command[1] # <<>> /\ IsCommandSafe(command[1])
             THEN <<MapperCommand(CustomId(n - 1), command[1], priority, "manual",
                                  "medium", TRUE, Nothing, FALSE)>>
             ELSE <<>>)
            \o GenerateCustomCommands(steps, n + 1, priority)

\* CommandMapper._add_generic_commands
AddGenericCommands(analysis) ==
    CreateMappedCommand("log_incident", analysis, "low", "immediate")
    \o (IF Lower(analysis.risk_level) \in {"high", "critical", "severe"}
        THEN CreateMappedCommand("send_alert", analysis, "high", "immediate")
        ELSE <<>>)

\* the sort key of _sort_commands; identifiers are compared as strings
PriorityWeight(prio) ==
    CASE prio = "critical" -> 5 [] prio = "high" -> 4 [] prio = "medium" -> 3
      [] prio = "low" -> 2 [] prio = "info" -> 1 [] OTHER -> 0
ExecutionWeight(exec_mode) ==
    CASE exec_mode = "immediate" -> 4 [] exec_mode = "conditional" -> 3
      [] exec_mode = "scheduled" -> 2 [] exec_mode = "manual" -> 1 [] OTHER -> 0
\* (every identifier ends in "_" and a time stamp, so that custom_10_... sorts
\* before custom_1_...)
IdOrder == <<"collect_logs", "custom_0", "custom_10", "custom_11", "custom_12",
             "custom_13", "custom_1", "custom_2", "custom_3", "custom_4",
             "custom_5", "custom_6", "custom_7", "custom_8", "custom_9",
             "disable_service", "log_incident", "monitor_process",
             "restart_service", "send_alert", "stop_service">>
IdRank(id) == CHOOSE i \in DOMAIN IdOrder : IdOrder[i] = id
SortsBefore(c, d) ==
    \/ PriorityWeight(c.priority) > PriorityWeight(d.priority)
    \/ /\ PriorityWeight(c.priority) = PriorityWeight(d.priority)
       /\ \/ ExecutionWeight(c.execution_mode) > ExecutionWeight(d.execution_mode)
          \/ /\ ExecutionWeight(c.execution_mode) = ExecutionWeight(d.execution_mode)
             /\ IdRank(c.command_id) < IdRank(d.command_id)

\* _sort_commands leaving the list as it was built
SortCommands_AsBuilt(commands) == commands

\* CommandMapper._sort_commands (sorted() is stable)
RECURSIVE SortCommands(_)
SortCommands(commands) ==
    IF commands = <<>> THEN <<>>
    ELSE LET first == CHOOSE i \in DOMAIN commands :
                          /\ \A j \in DOMAIN commands : ~SortsBefore(commands[j], commands[i])
                          /\ \A j \in 1..(i - 1) : SortsBefore(commands[j], commands[i])
                                                   \/ SortsBefore(commands[i], commands[j])
         IN <<commands[first]>>
            \o SortCommands(SubSeq(commands, 1, first - 1)
                            \o SubSeq(commands, first + 1, Len(commands)))

\* CommandMapper.map_analysis_to_commands: the list it returns
MapAnalysisToCommands(analysis, context) ==
    LET risk_level == Lower(analysis.risk_level)
        priority == DeterminePriority(risk_level)
        execution_mode == DetermineExecutionMode(risk_level, context)
        matched_rules == MatchMappingRules(analysis.analysis_summary,
                                           analysis.remediation_steps)
        all == RulesCommands(matched_rules, analysis, context)
               \o GenerateCustomCommands(analysis.remediation_steps, 1, priority)
               \o AddGenericCommands(analysis)
        limited == IF Len(all) > MaxCommandsPerAnalysis
                   THEN SubSeq(all, 1, MaxCommandsPerAnalysis) ELSE all
    IN SortCommands(limited)

\* ---- the findings given to the mapper
\* pieces of a remediation step: a quoted or labelled command (harmless,
\* destructive, destructive in capitals), a destructive phrase in the prose,
\* a shell operator, a long word (alone, and after a space), a word, a line
\* break
StepFragments ==
    { <<"<run>", " ", "<bt>", "uptime", "<bt>">>,
      <<"<run>", " ", "<bt>", "rm", " ", "-rf", "<bt>">>,
      <<"<run>", " ", "<bt>", "RM", " ", "-RF", "<bt>">>,
      <<"<cmd:>", " ", "uptime">>,
      <<"<cmd:>", " ", "rm", " ", "-rf">>,
      <<"rm", " ", "-rf">>,
      <<";">>, <<"<pad>">>, <<" ", "<pad>">>, <<"uptime">>, <<"<nl>">> }

\* the texts made of at most n fragments
RECURSIVE TextsOf(_)
TextsOf(n) ==
    IF n = 0 THEN {<<>>}
    ELSE LET shorter == TextsOf(n - 1)
         IN shorter \cup {t \o f : t \in shorter, f \in StepFragments}

MapperFindings ==
    [analysis_summary : {<<"routine">>, <<"Service Crash">>},
     risk_level : {"medium", "HIGH"},
     remediation_steps : {<<>>} \cup {<<step>> : step \in TextsOf(MaxFragments)},
     service : {Nothing, Some(OtherValue(<<"None">>)), Some(StrValue(<<"nginx">>)),
                Some(StrValue(<<"nginx", ";", "reboot">>))}]

\* map_analysis_to_commands, called once on a new mapper
MapAnalysis(analysis, context) ==
    /\ analysis_result = Nothing
    /\ analysis_result' = Some(analysis)
    /\ mapped_commands' = MapAnalysisToCommands(analysis, context)
    /\ command_history' = command_history \o mapped_commands'
    /\ UNCHANGED <<engineVars, agentVars, callbackVars, lifeVars>>

MapperNext ==
    \E analysis \in MapperFindings, auto \in BOOLEAN :
        MapAnalysis(analysis, [auto_execute |-> auto])

SpecMapper == Init /\ [][MapperNext]_vars

\* ===================================================== properties: engine
Approved == {"approved", "auto_approved"}
Decided == {"approved", "auto_approved", "rejected"}
RollbackOutcomes == {"rollback_completed", "rollback_failed"}
\* no thread is inside cancel_command for c
NoCancelInFlight(c) == \A t \in DOMAIN canceller : canceller[t] # c
\* the executor thread of c returns from _execute_command in this step
ExecutionEnds(c) == worker[c] # "done" /\ worker'[c] = "done"

\* C1: a command is handed to an executor thread and enters RUNNING only if its
\* approval status is APPROVED or AUTO_APPROVED; a PENDING or REJECTED command
\* is never dispatched and never RUNNING.
C1_RunningOnlyIfApproved ==
    \A c \in DOMAIN execution_contexts :
        (StatusOf(c) = "running" \/ worker[c] # "idle")
            => execution_contexts[c].approval_status \in Approved

\* C1, its case: a command that waited for an operator's approval is RUNNING
C1_Witness ==
    \E c \in DOMAIN execution_contexts :
        /\ StatusOf(c) = "running"
        /\ execution_contexts[c].approval_status = "approved"
        /\ execution_contexts[c].approval_user \in Users

C7_NoRollbackUnlessFailed ==
    [][ \A c \in DOMAIN execution_contexts :
            (ExecutionEnds(c) /\ c \in DOMAIN execution_contexts'
                 /\ execution_contexts'[c].status \in {"completed", "timeout", "cancelled"})
              => /\ execution_contexts'[c].rollback_result = None
                 /\ AuditEntry("ROLLBACK_EXECUTED", c) \notin audit'
      ]_vars

\* C8 (as the specification states it): when the executor thread returns with
\* the command FAILED, rollback enabled and a rollback command defined, the
\* rollback was executed and its ROLLBACK_COMPLETED or ROLLBACK_FAILED result
\* is attached.
C8_FailedImpliesRollback ==
    [][ \A c \in DOMAIN execution_contexts :
            (ExecutionEnds(c) /\ c \in DOMAIN execution_contexts'
                 /\ execution_contexts'[c].status = "failed"
                 /\ execution_contexts[c].command.rollback_command
                 /\ config.enable_rollback /\ config'.enable_rollback)
              => execution_contexts'[c].rollback_result \in RollbackOutcomes
      ]_vars

\* C9 (as the specification states it): a command whose subprocess was ended
\* for running past timeout_seconds, by the executor's timeout handling or by
\* the monitor's timeout scan and with no operator's cancel, has the final
\* status TIMEOUT.
C9_TimeoutIsFinal ==
    \A c \in DOMAIN execution_contexts :
        (/\ worker[c] = "done"
         /\ process[c] = "killed"
         /\ \A t \in DOMAIN canceller : canceller[t] = 0
         /\ <<"COMMAND_CANCELLED", c, CancelReason("api")>> \notin audit)
          => StatusOf(c) = "timeout"

\* C10 (as the specification states it): a command that ran past its
\* timeout_seconds and carries a rollback command gets a nested rollback result.
C10_TimeoutGetsRollback ==
    \A c \in DOMAIN execution_contexts :
        (/\ worker[c] = "done"
         /\ StatusOf(c) = "timeout"
         /\ execution_contexts[c].command.rollback_command
         /\ config.enable_rollback)
          => execution_contexts[c].rollback_result \in RollbackOutcomes

\* C10, as the code has it: a command whose status is TIMEOUT has no nested
\* rollback result, whether or not it carries a rollback command.
C10_TimeoutHasNoRollback ==
    \A c \in DOMAIN execution_contexts :
        StatusOf(c) = "timeout" => execution_contexts[c].rollback_result = None

\* C10, its case: the execution of a command with a rollback command, rollback
\* enabled, has ended in TIMEOUT
C10_Witness ==
    \E c \in DOMAIN execution_contexts :
        /\ worker[c] = "done"
        /\ StatusOf(c) = "timeout"
        /\ execution_contexts[c].command.rollback_command
        /\ config.enable_rollback

\* ============================================ properties: approval at submit
\* submit_command stores the context of c in this step
Submits(c) == c \notin DOMAIN execution_contexts /\ c \in DOMAIN execution_contexts'

\* C4 (as the specification states it): at submit, a command of priority HIGH
\* or CRITICAL is not marked AUTO_APPROVED while require_approval_high_risk is
\* on, and a command of risk high or critical is not marked AUTO_APPROVED
\* while require_approval_critical is on.
C4_DenyRulesHold ==
    [][ \A c \in CommandIds :
            (Submits(c) /\ execution_contexts'[c].approval_status = "auto_approved")
              => LET command == execution_contexts'[c].command
                 IN /\ ~(command.priority \in {"high", "critical"}
                             /\ config.require_approval_high_risk)
                    /\ ~(command.risk_level \in {"high", "critical"}
                             /\ config.require_approval_critical)
      ]_vars

\* C5 (as the specification states it): at submit, a command that requires
\* elevated privileges and whose risk level is not low is not auto-approved,
\* whatever its priority and whatever the switches.
C5_ElevationRuleFirst ==
    [][ \A c \in CommandIds :
            (Submits(c) /\ execution_contexts'[c].command.requires_sudo
                 /\ execution_contexts'[c].command.risk_level # "low")
              => execution_contexts'[c].approval_status # "auto_approved"
      ]_vars

\* ===================================================== properties: agent
\* the risk-tolerance policy of C3 on a finding's risk level
TolerancePermits(tolerance, risk) ==
    CASE tolerance = "low"    -> risk \in {"low", "info"}
      [] tolerance = "medium" -> risk # "critical"
      [] tolerance = "high"   -> TRUE

\* C3: a decision the agent emits has auto_execute true exactly when the mode
\* is AUTO, the confidence is at least auto_execute_threshold, no mapped
\* command has risk high or critical, no command requiring sudo has a risk
\* other than low, and the risk tolerance permits the finding's risk level;
\* outside AUTO mode a decision is emitted with auto_execute false.
C3_AutoExecuteIff ==
    [][ Len(decision_history') > Len(decision_history) =>
          LET d == decision_history'[Len(decision_history')]
              commands == d.mapped_commands
          IN d.auto_execute <=>
               /\ mode = "auto"
               /\ d.confidence_score >= AutoExecuteThreshold
               /\ \A i \in DOMAIN commands :
                      commands[i].risk_level \notin {"high", "critical"}
               /\ \A i \in DOMAIN commands :
                      commands[i].requires_sudo => commands[i].risk_level = "low"
               /\ TolerancePermits(agent_config.risk_tolerance, Lower(d.risk_level))
      ]_vars

\* C3, its case: a decision at exactly the threshold was auto-executed and its
\* two commands were submitted to the engine
C3_Witness ==
    /\ Len(decision_history) = 1
    /\ decision_history[1].auto_execute
    /\ decision_history[1].confidence_score = AutoExecuteThreshold
    /\ Len(decision_history[1].mapped_commands) = 2
    /\ metrics.total_commands_executed = 2
    /\ n_submitted = 2

\* ===================================================== properties: mapper
\* the text carries a denylisted phrase, in whatever case it is written
CarriesDestructivePhrase(text) ==
    \E phrase \in DangerousCommands : Contains(phrase, LowerText(text))
\* the text carries one of the shell operators && || ; | > >> < ` $(
CarriesShellOperator(text) ==
    \E i \in DOMAIN text : text[i] \in {"&&", "||", ";", "|", ">", ">>", "<", "<bt>", "$("}
IsCustom(command) == command.command_id \in {CustomId(0), CustomId(1)}

\* what C2 says of every returned command string
ReturnedCommandsAreSafe ==
    \A i \in DOMAIN mapped_commands :
        /\ ~CarriesDestructivePhrase(mapped_commands[i].command)
        /\ ~CarriesShellOperator(mapped_commands[i].command)
        /\ TextLen(mapped_commands[i].command) <= 500

\* C2 (as the specification states it): every command string that
\* map_analysis_to_commands returns has no denylisted phrase, no shell
\* operator and at most 500 characters, and a remediation step that carries
\* a destructive phrase yields no returned custom command.
C2_NoCustomFromDestructiveStep ==
    /\ ReturnedCommandsAreSafe
    /\ \A i \in DOMAIN mapped_commands :
           IsCustom(mapped_commands[i]) =>
               \A n \in DOMAIN analysis_result[1].remediation_steps :
                   CarriesDestructivePhrase(analysis_result[1].remediation_steps[n])
                       => mapped_commands[i].command_id # CustomId(n - 1)

\* C2, as the code has it: every command string that map_analysis_to_commands
\* returns, template-based or custom, has no denylisted phrase (in any case),
\* no shell operator and at most 500 characters; a command fragment that
\* carries a destructive phrase is never returned as a custom command.
C2_ReturnedCommandsAreSafe ==
    /\ ReturnedCommandsAreSafe
    /\ \A i \in DOMAIN command_history :
           IsCustom(command_history[i]) =>
               ~CarriesDestructivePhrase(command_history[i].command)

\* C2, its case: the step quotes a destructive command in capitals, which the
\* extraction lets through; no custom command is returned for it, while the
\* service's restart command is
C2_Witness ==
    /\ analysis_result # Nothing
    /\ analysis_result[1].remediation_steps =
           << <<"<run>", " ", "<bt>", "RM", " ", "-RF", "<bt>">> >>
    /\ Len(mapped_commands) = 1
    /\ mapped_commands[1].command_id = "restart_service"

\* ============================== properties: execution status, cancel_command
TerminalStatuses == {"completed", "failed", "timeout", "cancelled"}

\* C11 (as the specification states it): once the status of a command's
\* execution result is COMPLETED, FAILED, TIMEOUT or CANCELLED, no step of
\* cancel_command, reject_command, the monitor or an executor thread changes it.
C11_TerminalStatusIsFinal ==
    [][ \A c \in DOMAIN execution_contexts :
            (StatusOf(c) \in TerminalStatuses /\ c \in DOMAIN execution_contexts')
              => execution_contexts'[c].status = StatusOf(c)
      ]_vars

\* C12 (as the specification states it): a cancel_command call on a command
\* whose approval status is not PENDING and which is not running returns false
\* and leaves the contexts as they were.
C12_CancelIsGuarded ==
    [][ \A c \in DOMAIN execution_contexts :
            (/\ execution_contexts[c].approval_status # "pending"
             /\ StatusOf(c) # "running"
             /\ c \notin running_executions
             /\ canceller["api"] = 0
             /\ lastCall' # lastCall
             /\ lastCall'.op = "cancel" /\ lastCall'.id = c)
              => /\ lastCall'.ret = FALSE
                 /\ UNCHANGED execution_contexts
      ]_vars

\* ======================================================= properties: the queue
\* the monitor hands c to the executor in this step
Dispatches(c) == worker[c] = "idle" /\ worker'[c] = "queued"
\* d is in the queue and _can_execute would let it run
QueuedAndReady(d) ==
    /\ Exists(d)
    /\ <<GetExecutionPriority(execution_contexts[d].command), d>> \in execution_queue
    /\ CanExecute(execution_contexts[d])
\* the rank of a priority in the order CRITICAL, HIGH, MEDIUM, LOW, INFO
PriorityRank(prio) ==
    CASE prio = "critical" -> 1 [] prio = "high" -> 2 [] prio = "medium" -> 3
      [] prio = "low" -> 4 [] prio = "info" -> 5

\* C13: when the monitor dispatches a command, every other command that is
\* queued and ready at that moment has a lower priority (in the order
\* CRITICAL, HIGH, MEDIUM, LOW, INFO) or the same priority and a greater id.
C13_DispatchInPriorityOrder ==
    [][ \A c \in DOMAIN execution_contexts :
            Dispatches(c) =>
                \A d \in DOMAIN execution_contexts \ {c} :
                    QueuedAndReady(d) =>
                        LET pc == PriorityRank(execution_contexts[c].command.priority)
                            pd == PriorityRank(execution_contexts[d].command.priority)
                        IN pc < pd \/ (pc = pd /\ c < d)
      ]_vars

\* C13, its case: the CRITICAL command with the greater id was dispatched
\* while a ready INFO command with the smaller id still waits in the queue
C13_Witness ==
    /\ Exists(1) /\ Exists(2)
    /\ execution_contexts[2].command.priority = "critical"
    /\ execution_contexts[1].command.priority = "info"
    /\ worker[2] = "queued"
    /\ worker[1] = "idle"
    /\ QueuedAndReady(1)

C14_ApprovedIsDispatched ==
    \A c \in QueueIds :
        (/\ Exists(c)
         /\ execution_contexts[c].approval_status = "approved"
         /\ execution_contexts[c].command.execution_mode # "manual"
         /\ execution_contexts[c].conditions_met
         /\ execution_contexts[c].dependencies_met)
          ~> (worker[c] # "idle")


\* ------------------------------------------------- properties: the agent
\* the decision the step just saved
SavedDecision == decision_history'[Len(decision_history')]
\* the step is a round of _event_processor on the head of the event queue
ProcessesEvent == event_queue # <<>> /\ event_queue' = Tail(event_queue)
\* the step saves a decision
SavesDecision == Len(decision_history') > Len(decision_history)

C17_SubmitOnlyWhenAutoExecute ==
    [][ /\ (\/ n_submitted' # n_submitted
            \/ execution_contexts' # execution_contexts
            \/ execution_queue' # execution_queue)
           => /\ ProcessesEvent
              /\ SavesDecision
              /\ SavedDecision.auto_execute
              /\ mode = "auto"
        /\ (ProcessesEvent /\ (mode # "auto" \/ ~SavesDecision
                               \/ ~SavedDecision.auto_execute))
           => /\ n_submitted' = n_submitted
              /\ execution_contexts' = execution_contexts
              /\ execution_queue' = execution_queue
              /\ metrics'.total_commands_executed = metrics.total_commands_executed
      ]_vars

\* a decision every condition of _should_auto_execute but the mode is met by
AutoExecutableDecision(d) ==
    /\ d.confidence_score >= AutoExecuteThreshold
    /\ d.mapped_commands # <<>>
    /\ \A i \in DOMAIN d.mapped_commands :
           /\ d.mapped_commands[i].risk_level = "low"
           /\ ~d.mapped_commands[i].requires_sudo
    /\ Lower(d.risk_level) \in {"low", "info"}

\* C17, its case: in LEARNING mode a decision of high confidence with low-risk
\* commands was saved and nothing was submitted
C17_Witness ==
    /\ mode = "learning"
    /\ Len(decision_history) = 1
    /\ AutoExecutableDecision(decision_history[1])
    /\ ~decision_history[1].auto_execute
    /\ n_submitted = 0
    /\ execution_queue = {}

\* C18: when a decision is saved with auto_execute true and all its commands
\* have risk low and none requires sudo, each of its commands has a context
\* with approval status AUTO_APPROVED and an entry in the queue after the round.
C18_AutoExecutedAreAutoApproved ==
    [][ (/\ ProcessesEvent
         /\ SavesDecision
         /\ SavedDecision.auto_execute
         /\ \A i \in DOMAIN SavedDecision.mapped_commands :
                /\ SavedDecision.mapped_commands[i].risk_level = "low"
                /\ ~SavedDecision.mapped_commands[i].requires_sudo)
        => LET commands == SavedDecision.mapped_commands
           IN /\ n_submitted' = n_submitted + Len(commands)
              /\ metrics'.total_commands_executed =
                     metrics.total_commands_executed + Len(commands)
              /\ \A i \in DOMAIN commands :
                     LET id == n_submitted + i
                     IN /\ id \in DOMAIN execution_contexts'
                        /\ execution_contexts'[id].command = commands[i]
                        /\ execution_contexts'[id].approval_status = "auto_approved"
                        /\ <<GetExecutionPriority(commands[i]), id>> \in execution_queue'
      ]_vars

\* C18, its case: an auto-executed decision with a command of priority high
\* and one of priority medium, both submitted and auto-approved
C18_Witness ==
    /\ Len(decision_history) = 1
    /\ decision_history[1].auto_execute
    /\ Len(decision_history[1].mapped_commands) = 2
    /\ decision_history[1].mapped_commands[1].priority = "high"
    /\ decision_history[1].mapped_commands[2].priority = "medium"
    /\ \A i \in 1..2 : decision_history[1].mapped_commands[i].risk_level = "low"
    /\ DOMAIN execution_contexts = {1, 2}
    /\ \A c \in {1, 2} : execution_contexts[c].approval_status = "auto_approved"


\* ---------------------------------------- properties: audit and callbacks
\* C19: the audit entries reach the audit callback with strictly increasing
\* timestamps: each entry received has a later timestamp than the entry
\* received before it.
C19_AuditTimestampsIncrease ==
    \A i \in 1..(Len(audit_log) - 1) :
        audit_log[i].timestamp < audit_log[i + 1].timestamp

\* C20: with an approval, a notification and an audit callback that may raise,
\* no exception leaves the try statement around a callback call, and each
\* operation does all of its work: submit_command stores the context, puts the
\* command into the queue, calls the approval callback for a command left
\* PENDING and writes the COMMAND_SUBMITTED entry; approve_command returns
\* true with its entry written; an execution that starts is RUNNING with its
\* entry and notification, and one that ends has a terminal status, the
\* COMMAND_COMPLETED entry and the EXECUTION_COMPLETED notification.
C20_CallbackErrorsAreContained ==
    [][ /\ ~escaped'
        /\ \A c \in QueueIds :
             /\ (~Exists(c) /\ c \in DOMAIN execution_contexts')
                => LET context == execution_contexts'[c]
                   IN /\ <<GetExecutionPriority(context.command), c>>
                             \in execution_queue'
                      /\ n_submitted' = n_submitted + 1
                      /\ AuditEntry("COMMAND_SUBMITTED", c) \in audit'
                      /\ \E e \in stamped' : /\ e.action = "COMMAND_SUBMITTED"
                                             /\ e.command_id = c
                      /\ context.approval_status = "pending"
                         => <<"approval", "APPROVAL_REQUEST", c>> \in callback_calls'
             /\ (/\ Exists(c)
                 /\ execution_contexts[c].approval_status = "pending"
                 /\ execution_contexts'[c].approval_status = "approved")
                => /\ lastCall' = [op |-> "approve", id |-> c, ret |-> TRUE]
                   /\ AuditEntry("COMMAND_APPROVED", c) \in audit'
             /\ (worker[c] = "queued" /\ worker'[c] # "queued")
                => /\ execution_contexts'[c].status = "running"
                   /\ AuditEntry("COMMAND_STARTED", c) \in audit'
                   /\ <<"notification", "EXECUTION_STARTED", c>> \in callback_calls'
             /\ (worker[c] # "done" /\ worker'[c] = "done")
                => /\ execution_contexts'[c].status \in TerminalStatuses
                   /\ AuditEntry("COMMAND_COMPLETED", c) \in audit'
                   /\ \E e \in stamped' : /\ e.action = "COMMAND_COMPLETED"
                                          /\ e.command_id = c
                   /\ <<"notification", "EXECUTION_COMPLETED", c>> \in callback_calls'
      ]_vars

\* C20, its case: all three callbacks raise; one command was submitted and
\* left PENDING, with the approval callback called, the other was executed to
\* COMPLETED, with its entries received by the audit callback
C20_Witness ==
    /\ \A cb \in {"approval", "notification", "audit"} : callbacks[cb] = "raises"
    /\ ~escaped
    /\ \E c, d \in QueueIds :
           /\ Exists(c) /\ Exists(d)
           /\ execution_contexts[c].approval_status = "pending"
           /\ <<"approval", "APPROVAL_REQUEST", c>> \in callback_calls
           /\ worker[d] = "done"
           /\ execution_contexts[d].status = "completed"
           /\ <<"notification", "EXECUTION_COMPLETED", d>> \in callback_calls
           /\ \E i \in DOMAIN audit_log : /\ audit_log[i].action = "COMMAND_COMPLETED"
                                          /\ audit_log[i].command_id = d


\* ============================================== submitting an id once more
\* submit_command takes the id from the command it is given
\* (command.command_id) and returns it: a caller that submits a command once
\* more, or two commands that carry the same id, reaches the context the
\* engine already has under that id.

\* how many submit_command calls a behaviour with resubmission makes
MaxResubmits == 3

\* ExecutionEngine.submit_command with its return value, for a command whose
\* command_id is id; the calls taken are those made when no queue entry and
\* no executor thread of an earlier submission of the id is left
ResubmitCommand(command, id) ==
    /\ n_submitted < MaxResubmits
    /\ worker[id] \in {"idle", "done"}
    /\ \A e \in execution_queue : e[2] # id
    /\ SubmitStateBecomes(SubmitAs(SubmitState, config, command, id))
    /\ lastCall' = [op |-> "submit", id |-> id, ret |-> TRUE]
    /\ UNCHANGED <<config, running_executions, worker, process, overdue,
                   canceller, agentVars, mapperVars, callbackVars, lifeVars>>

ResubmitNext ==
    \/ \E command \in CallbackCommands, id \in QueueIds : ResubmitCommand(command, id)
    \/ \E c \in QueueIds : ApproveCommand(c, "alice")
    \/ \E c \in QueueIds : RejectCommand(c, "alice")
    \/ MonitorDispatch
    \/ \E c \in QueueIds : CallbacksWorker(c)

SpecResubmit == QueueInit /\ [][ResubmitNext]_vars

\* the ids submit_command has returned so far: each call that returned left
\* a COMMAND_SUBMITTED line
ReturnedIds == {c \in QueueIds : AuditEntry("COMMAND_SUBMITTED", c) \in audit}

\* C21: every submit_command call returns an id that no earlier call has
\* returned, and leaves the context of every id returned before as it was
\* (a second submission neither replaces nor aliases the earlier context).
C21_SubmitReturnsNewId ==
    [][ n_submitted' = n_submitted + 1 =>
            /\ lastCall'.id \notin ReturnedIds
            /\ \A c \in DOMAIN execution_contexts :
                   /\ c \in DOMAIN execution_contexts'
                   /\ execution_contexts'[c] = execution_contexts[c] ]_vars


\* the monitor hands command c to the executor (executor.submit)
HandsToExecutor(c) == worker[c] # "queued" /\ worker'[c] = "queued"
\* the statuses an execution that ran ends with
ExecutedStatuses == {"completed", "failed", "timeout"}

\* C22: a submitted command is handed to the executor at most once: only a
\* command that was never handed over is, a command whose result is COMPLETED,
\* FAILED or TIMEOUT is neither handed over nor set RUNNING again, and the
\* retry_count of every context stays 0.
C22_DispatchedAtMostOnce ==
    [][ \A c \in CommandIds :
            /\ HandsToExecutor(c) => worker[c] = "idle"
            /\ (Exists(c) /\ StatusOf(c) \in ExecutedStatuses) =>
                   /\ ~HandsToExecutor(c)
                   /\ (c \in DOMAIN execution_contexts' =>
                           execution_contexts'[c].status # "running")
            /\ c \in DOMAIN execution_contexts' =>
                   execution_contexts'[c].retry_count = 0 ]_vars
\* a command ran to FAILED or TIMEOUT, its executor thread has returned and
\* the monitor has nothing left to dispatch
C22_Witness ==
    \E c \in CommandIds :
        /\ Exists(c)
        /\ StatusOf(c) \in {"failed", "timeout"}
        /\ worker[c] = "done"
        /\ execution_queue = {}


\* ======================================================= stopping the engine
\* ExecutionEngine.stop() on its caller's thread, beside the monitor thread
\* (whose loop tests is_running once per round) and the executor threads.
\* Commands stay within their timeouts, and no one submits or approves while
\* stop() runs.

\* stop(): "if not self.is_running: return", then the flag and the event; the
\* commands the queue holds at that moment are noted
StopCall ==
    /\ stopping.pc = "none"
    /\ is_running
    /\ is_running' = FALSE
    /\ stopping' = [pc |-> "cancel_pending",
                    queued |-> {e[2] : e \in execution_queue}, force |-> {}]
    /\ UNCHANGED <<config, execution_contexts, execution_queue, running_executions,
                   stats, audit, auditVars, worker, process, overdue, canceller,
                   lastCall, n_submitted, agentVars, mapperVars, callbackVars,
                   monitor_pc, agent_status, iterating, agent_run,
                   submitting, processor_pc>>

\* _cancel_pending_executions, one turn of its loop: get_nowait and
\* cancel_command of a command that has no process; an empty queue ends it
StopCancelPending ==
    /\ stopping.pc = "cancel_pending"
    /\ IF execution_queue = {}
       THEN /\ stopping' = [stopping EXCEPT !.pc = "wait"]
            /\ UNCHANGED <<execution_queue, execution_contexts, audit, auditVars>>
       ELSE /\ LET head == QueueHead(execution_queue)
                   c == head[2]
               IN /\ execution_queue' = execution_queue \ {head}
                  /\ IF Exists(c)
                     THEN /\ execution_contexts' = WithResult(c, "cancelled")
                          /\ AuditCancel("api", c)
                     ELSE UNCHANGED <<execution_contexts, audit, auditVars>>
            /\ UNCHANGED stopping
    /\ UNCHANGED <<config, running_executions, stats, worker, process, overdue,
                   canceller, lastCall, n_submitted, agentVars, mapperVars,
                   callbackVars, is_running, monitor_pc, agent_status, iterating, agent_run,
                   submitting, processor_pc>>

\* _wait_for_running_executions leaves its loop (the running map is empty, or
\* thirty seconds have passed) and lists the keys of the running map
StopWait ==
    /\ stopping.pc = "wait"
    /\ stopping' = [stopping EXCEPT !.pc = "force", !.force = running_executions]
    /\ UNCHANGED <<config, execution_contexts, execution_queue, running_executions,
                   stats, audit, auditVars, worker, process, overdue, canceller,
                   lastCall, n_submitted, agentVars, mapperVars, callbackVars,
                   is_running, monitor_pc, agent_status, iterating, agent_run,
                   submitting, processor_pc>>

\* _wait_for_running_executions: cancel_command for a listed command
StopForce(c) ==
    /\ stopping.pc = "force"
    /\ c \in stopping.force
    /\ CancelBeginOn("api", c)
    /\ stopping' = [stopping EXCEPT !.force = @ \ {c}]
    /\ UNCHANGED <<is_running, monitor_pc, agent_status, iterating, agent_run,
                   submitting, processor_pc>>

\* executor.shutdown(wait=True), its beginning: from now on executor.submit
\* raises RuntimeError
StopShutdown ==
    /\ stopping.pc = "force"
    /\ stopping.force = {}
    /\ canceller["api"] = 0
    /\ stopping' = [stopping EXCEPT !.pc = "shutdown"]
    /\ UNCHANGED <<config, execution_contexts, execution_queue, running_executions,
                   stats, audit, auditVars, worker, process, overdue, canceller,
                   lastCall, n_submitted, agentVars, mapperVars, callbackVars,
                   is_running, monitor_pc, agent_status, iterating, agent_run,
                   submitting, processor_pc>>

\* executor.shutdown(wait=True) returns when every work item handed to the
\* executor has run to its end; stop() returns
StopReturn ==
    /\ stopping.pc = "shutdown"
    /\ \A c \in QueueIds : worker[c] \in {"idle", "done"}
    /\ stopping' = [stopping EXCEPT !.pc = "returned"]
    /\ UNCHANGED <<config, execution_contexts, execution_queue, running_executions,
                   stats, audit, auditVars, worker, process, overdue, canceller,
                   lastCall, n_submitted, agentVars, mapperVars, callbackVars,
                   is_running, monitor_pc, agent_status, iterating, agent_run,
                   submitting, processor_pc>>

\* _monitor_executions, the test of its while loop
MonitorLoopTest ==
    /\ monitor_pc = "test"
    /\ monitor_pc' = IF is_running THEN "round" ELSE "stopped"
    /\ UNCHANGED <<config, execution_contexts, execution_queue, running_executions,
                   stats, audit, auditVars, worker, process, overdue, canceller,
                   lastCall, n_submitted, agentVars, mapperVars, callbackVars,
                   is_running, stopping, agent_status, iterating, agent_run,
                   submitting, processor_pc>>

\* _monitor_executions, the body of its loop: the dispatch (executor.submit
\* raises once the executor is shut down, and the handler of the loop logs it),
\* then the sleep
MonitorRound ==
    /\ monitor_pc = "round"
    /\ IF Cardinality(running_executions) < MaxConcurrent /\ execution_queue # {}
       THEN LET head == QueueHead(execution_queue)
                c == head[2]
            IN /\ execution_queue' = execution_queue \ {head}
               /\ worker' = IF /\ Exists(c)
                               /\ CanExecute(execution_contexts[c])
                               /\ stopping.pc \notin {"shutdown", "returned"}
                            THEN [worker EXCEPT ![c] = "queued"]
                            ELSE worker
       ELSE UNCHANGED <<execution_queue, worker>>
    /\ monitor_pc' = "test"
    /\ UNCHANGED <<config, execution_contexts, running_executions, stats, audit,
                   auditVars, process, overdue, canceller, lastCall, n_submitted,
                   agentVars, mapperVars, callbackVars, is_running, stopping,
                   agent_status, iterating, agent_run,
                   submitting, processor_pc>>

StopNext ==
    \/ \E command \in CallbackCommands, id \in QueueIds :
           stopping.pc = "none" /\ QueueSubmit(command, id)
    \/ \E c \in QueueIds : stopping.pc = "none" /\ ApproveCommand(c, "alice")
    \/ MonitorLoopTest
    \/ MonitorRound
    \/ \E c \in QueueIds : CallbacksWorker(c)
    \/ StopCall
    \/ StopCancelPending
    \/ StopWait
    \/ \E c \in QueueIds : StopForce(c)
    \/ CancelEnd("api")
    \/ StopShutdown
    \/ StopReturn

SpecStop == QueueInit /\ [][StopNext]_vars

\* stop() has returned
Stopped == stopping.pc = "returned"

\* C23: after stop() has returned every command that was in the queue when
\* stop() was called has status CANCELLED, no command has status RUNNING, the
\* running-process map is empty, and no command is with the executor, waiting
\* or running, so that none starts afterwards.
C23_StopLeavesNothingRunning ==
    Stopped =>
        /\ \A c \in stopping.queued : Exists(c) /\ StatusOf(c) = "cancelled"
        /\ \A c \in DOMAIN execution_contexts : StatusOf(c) # "running"
        /\ running_executions = {}
        /\ \A c \in QueueIds : worker[c] \in {"idle", "done"}


\* ===================================================== the cleanup worker
\* The queue of the engine with reject_command and the cleanup thread, for
\* contexts whose end_time is older than the retention window by the time the
\* cleanup thread looks at them.
CleanupNext ==
    \/ \E command \in CallbackCommands, id \in QueueIds : QueueSubmit(command, id)
    \/ \E c \in QueueIds : ApproveCommand(c, "alice")
    \/ \E c \in QueueIds : RejectCommand(c, "alice")
    \/ MonitorDispatch
    \/ \E c \in QueueIds : CallbacksWorker(c)
    \/ \E c \in QueueIds : CleanupOldContext(c)

\* the engine keeps running: the monitor makes its rounds, an executor thread
\* that has a step to take takes it, and the cleanup thread wakes every
\* cleanup_interval
SpecCleanupFair ==
    /\ QueueInit /\ [][CleanupNext]_vars
    /\ WF_vars(MonitorDispatch)
    /\ \A c \in QueueIds : WF_vars(CallbacksWorker(c))
    /\ \A c \in QueueIds : WF_vars(CleanupOldContext(c))

\* C24: every context whose result has a terminal status (COMPLETED, FAILED,
\* TIMEOUT or CANCELLED, a rejected command included) is eventually removed
\* from the context map by the cleanup worker.
C24_TerminalContextIsPurged ==
    \A c \in QueueIds :
        (Exists(c) /\ StatusOf(c) \in TerminalStatuses) ~> ~Exists(c)


\* ============================================ the maps under concurrent use
\* The engine has no lock.  submit_command on a caller's thread inserts into
\* the context map while the monitor thread iterates over it in
\* _check_execution_timeouts; the dict iterator raises RuntimeError when the
\* map's size differs from the size at the start of the iteration.

\* _check_execution_timeouts: "for command_id, context in
\* self.execution_contexts.items()" creates the iterator
MonitorScanBegin ==
    /\ iterating = Nothing
    /\ canceller["monitor"] = 0
    /\ iterating' = Some([used |-> Cardinality(DOMAIN execution_contexts),
                          left |-> DOMAIN execution_contexts])
    /\ UNCHANGED <<config, execution_contexts, execution_queue, running_executions,
                   stats, audit, auditVars, worker, process, overdue, canceller,
                   lastCall, n_submitted, agentVars, mapperVars, callbackVars,
                   is_running, stopping, monitor_pc, agent_status, agent_run,
                   submitting, processor_pc>>

\* the next turn of that loop: the iterator raises when the size of the map
\* has changed (the handler of the monitor loop logs the error), ends when no
\* key is left, and else yields a context, which is within its timeout
MonitorScanNext ==
    /\ iterating # Nothing
    /\ LET it == iterating[1]
           left == it.left \cap DOMAIN execution_contexts
       IN IF Cardinality(DOMAIN execution_contexts) # it.used
          THEN /\ iterating' = Nothing
               /\ lastCall' = [op |-> "scan", id |-> 0, ret |-> FALSE]
          ELSE IF left = {}
          THEN /\ iterating' = Nothing
               /\ lastCall' = [op |-> "scan", id |-> 0, ret |-> TRUE]
          ELSE /\ \E c \in left : iterating' = Some([it EXCEPT !.left = left \ {c}])
               /\ UNCHANGED lastCall
    /\ UNCHANGED <<config, execution_contexts, execution_queue, running_executions,
                   stats, audit, auditVars, worker, process, overdue, canceller,
                   n_submitted, agentVars, mapperVars, callbackVars,
                   is_running, stopping, monitor_pc, agent_status, agent_run,
                   submitting, processor_pc>>

\* the monitor thread dispatches or scans; callers and executor threads run
\* beside it
ScanNext ==
    \/ \E command \in CallbackCommands, id \in QueueIds : QueueSubmit(command, id)
    \/ \E c \in QueueIds : ApproveCommand(c, "alice")
    \/ iterating = Nothing /\ MonitorDispatch
    \/ MonitorScanBegin
    \/ MonitorScanNext
    \/ \E c \in QueueIds : CallbacksWorker(c)

SpecScan == QueueInit /\ [][ScanNext]_vars

\* the counters agree with what the engine has done
CountersAgree ==
    /\ stats.auto_approved =
           Cardinality({c \in DOMAIN execution_contexts :
                            execution_contexts[c].approval_status = "auto_approved"})
    /\ stats.manual_approved =
           Cardinality({c \in DOMAIN execution_contexts :
                            execution_contexts[c].approval_status = "approved"})
    /\ stats.total_executed = Cardinality({c \in QueueIds : worker[c] = "done"})

\* C25: the accesses to the context map and to the counters exclude each
\* other: no thread changes the key set of the context map while the monitor
\* thread iterates over it, and no increment of a counter is lost.
C25_MapAccessIsExclusive ==
    [][ /\ iterating # Nothing =>
               DOMAIN execution_contexts' = DOMAIN execution_contexts
        /\ CountersAgree' ]_vars


\* ================================================== the agent's life cycle
\* AISecurityAgent.start, stop, pause and resume: coroutines on one event
\* loop.  start() contains no await, so nothing else of the agent runs between
\* its statements; stop() awaits the tasks it cancelled, and other calls run
\* meanwhile.  The engine holds no command here.

\* class AgentStatus
AgentStatus == {"stopped", "starting", "running", "paused", "error"}

\* how many calls of the life cycle a behaviour makes
MaxCalls == 5
\* how many findings a behaviour submits
MaxFindings == 3

\* AISecurityAgent.__init__: STOPPED, is_running False; the engine it created
\* is not started
LifeCycleInit ==
    /\ EngineInit /\ AgentInit /\ MapperInit /\ CallbackInit
    /\ is_running = FALSE
    /\ stopping = NotStopping
    /\ monitor_pc = "stopped"
    /\ agent_status = "stopped"
    /\ iterating = Nothing
    /\ agent_run = [is_running |-> FALSE, stops |-> 0]
    /\ submitting = Nothing
    /\ processor_pc = "test"

\* a call of the life cycle is made: the calls are numbered
Called(op, ret) ==
    /\ lastCall.id < MaxCalls
    /\ agent_status # "starting"
    /\ lastCall' = [op |-> op, id |-> lastCall.id + 1, ret |-> ret]

\* pause() setting PAUSED whatever the status is (a variant of the code, for
\* comparison)
AgentPause_Unguarded ==
    /\ Called("pause", TRUE)
    /\ agent_status' = "paused"
    /\ UNCHANGED <<config, execution_contexts, execution_queue, running_executions,
                   stats, audit, auditVars, worker, process, overdue, canceller,
                   n_submitted, agentVars, mapperVars, callbackVars,
                   is_running, stopping, monitor_pc, iterating, agent_run,
                   submitting, processor_pc>>

\* AISecurityAgent.start up to "self.status = AgentStatus.STARTING"; in a
\* status other than STOPPED it logs a warning and returns
AgentStart ==
    /\ Called("start", agent_status = "stopped")
    /\ agent_status' = IF agent_status = "stopped" THEN "starting" ELSE agent_status
    /\ UNCHANGED <<config, execution_contexts, execution_queue, running_executions,
                   stats, audit, auditVars, worker, process, overdue, canceller,
                   n_submitted, agentVars, mapperVars, callbackVars,
                   is_running, stopping, monitor_pc, iterating, agent_run,
                   submitting, processor_pc>>

\* the try block of start(): execution_engine.start() (which returns at once
\* when the engine is running), is_running, the tasks, RUNNING
AgentStarted ==
    /\ agent_status = "starting"
    /\ is_running' = TRUE
    /\ monitor_pc' = IF is_running THEN monitor_pc ELSE "test"
    /\ agent_run' = [agent_run EXCEPT !.is_running = TRUE]
    /\ agent_status' = "running"
    /\ UNCHANGED <<config, execution_contexts, execution_queue, running_executions,
                   stats, audit, auditVars, worker, process, overdue, canceller,
                   lastCall, n_submitted, agentVars, mapperVars, callbackVars,
                   stopping, iterating, submitting, processor_pc>>

\* the try block of start() raises, in execution_engine.start() (a thread that
\* cannot be started) or after it (a task that cannot be created): ERROR, and
\* the exception is raised again to the caller
AgentStartFails(engine_started) ==
    /\ agent_status = "starting"
    /\ is_running' = (is_running \/ engine_started)
    /\ monitor_pc' = IF ~is_running /\ engine_started THEN "test" ELSE monitor_pc
    /\ agent_run' = [agent_run EXCEPT !.is_running = @ \/ engine_started]
    /\ agent_status' = "error"
    /\ lastCall' = [lastCall EXCEPT !.ret = FALSE]
    /\ UNCHANGED <<config, execution_contexts, execution_queue, running_executions,
                   stats, audit, auditVars, worker, process, overdue, canceller,
                   n_submitted, agentVars, mapperVars, callbackVars,
                   stopping, iterating, submitting, processor_pc>>

\* AISecurityAgent.stop up to "await asyncio.gather(...)": is_running False,
\* the tasks cancelled; in status STOPPED it returns at once
AgentStop ==
    /\ Called("stop", agent_status # "stopped")
    /\ agent_run' = IF agent_status = "stopped" THEN agent_run
                    ELSE [is_running |-> FALSE, stops |-> agent_run.stops + 1]
    /\ UNCHANGED <<config, execution_contexts, execution_queue, running_executions,
                   stats, audit, auditVars, worker, process, overdue, canceller,
                   n_submitted, agentVars, mapperVars, callbackVars,
                   is_running, stopping, monitor_pc, agent_status, iterating,
                   submitting, processor_pc>>

\* the rest of stop(): execution_engine.stop() (with nothing queued and
\* nothing running it sets the flags and shuts the executor down; it returns
\* at once when the engine is not running), then STOPPED
AgentStopped ==
    /\ agent_run.stops > 0
    /\ agent_status # "starting"
    /\ agent_run' = [agent_run EXCEPT !.stops = @ - 1]
    /\ is_running' = FALSE
    /\ stopping' = IF is_running THEN [NotStopping EXCEPT !.pc = "returned"]
                   ELSE stopping
    /\ agent_status' = "stopped"
    /\ UNCHANGED <<config, execution_contexts, execution_queue, running_executions,
                   stats, audit, auditVars, worker, process, overdue, canceller,
                   lastCall, n_submitted, agentVars, mapperVars, callbackVars,
                   monitor_pc, iterating, submitting, processor_pc>>

\* AISecurityAgent.pause
AgentPause ==
    /\ Called("pause", agent_status = "running")
    /\ agent_status' = IF agent_status = "running" THEN "paused" ELSE agent_status
    /\ UNCHANGED <<config, execution_contexts, execution_queue, running_executions,
                   stats, audit, auditVars, worker, process, overdue, canceller,
                   n_submitted, agentVars, mapperVars, callbackVars,
                   is_running, stopping, monitor_pc, iterating, agent_run,
                   submitting, processor_pc>>

\* AISecurityAgent.resume
AgentResume ==
    /\ Called("resume", agent_status = "paused")
    /\ agent_status' = IF agent_status = "paused" THEN "running" ELSE agent_status
    /\ UNCHANGED <<config, execution_contexts, execution_queue, running_executions,
                   stats, audit, auditVars, worker, process, overdue, canceller,
                   n_submitted, agentVars, mapperVars, callbackVars,
                   is_running, stopping, monitor_pc, iterating, agent_run,
                   submitting, processor_pc>>


\* asyncio.Queue(): the maxsize argument is left at its default
EventQueueMaxsize == 0
\* asyncio.Queue.full(): with maxsize <= 0 the queue is never full
QueueFull(q) == EventQueueMaxsize > 0 /\ Len(q) >= EventQueueMaxsize

\* the answers of the analysis service to the findings submitted here
LifeEvents == {Nothing, Some([confidence_score |-> 91, risk_level |-> "low"])}

\* AISecurityAgent.process_security_event: "await self.event_queue.put(...)"
\* waits while the queue is full, then the call returns None
PutEvent(analysis) ==
    /\ metrics.total_events_processed + Len(event_queue) < MaxFindings
    /\ agent_status # "starting"
    /\ ~QueueFull(event_queue)
    /\ event_queue' = Append(event_queue, analysis)
    /\ UNCHANGED <<engineVars, mode, agent_config, decision_history, metrics, averages,
                   mapperVars, callbackVars>>

\* a processor task takes an event: it runs while is_running is set and the
\* agent is not PAUSED (the mapper returns no command for these findings)
TakeEvent ==
    /\ agent_run.is_running
    /\ agent_status \notin {"paused", "starting"}
    /\ ProcessEvent(<<>>)

LifeCycleNext ==
    \/ AgentStart
    \/ AgentStarted
    \/ \E engine_started \in BOOLEAN : AgentStartFails(engine_started)
    \/ AgentStop
    \/ AgentStopped
    \/ AgentPause
    \/ AgentResume
    \/ MonitorLoopTest
    \/ MonitorRound
    \/ \E analysis \in LifeEvents : PutEvent(analysis)
    \/ TakeEvent

SpecLifeCycle == LifeCycleInit /\ [][LifeCycleNext]_vars

\* the changes of status the life cycle allows
StatusChanges ==
    { <<"stopped", "starting">>, <<"starting", "running">>,
      <<"running", "paused">>, <<"paused", "running">>,
      <<"starting", "error">> }
    \cup { <<s, "stopped">> : s \in AgentStatus \ {"stopped"} }
\* this step is a call of op
IsCall(op) == lastCall'.id # lastCall.id /\ lastCall'.op = op

\* C26: the status changes only along STOPPED -> STARTING -> RUNNING,
\* RUNNING <-> PAUSED, STARTING -> ERROR (a start-up that fails, which the
\* caller of start() is told) and any status -> STOPPED (by stop() alone);
\* start() in a status other than STOPPED, pause() in a status other than
\* RUNNING and resume() in a status other than PAUSED leave the status as it is.
C26_StatusFollowsLifeCycle ==
    [][ /\ agent_status' # agent_status =>
               <<agent_status, agent_status'>> \in StatusChanges
        /\ IsCall("start") /\ agent_status # "stopped" => agent_status' = agent_status
        /\ IsCall("pause") /\ agent_status # "running" => agent_status' = agent_status
        /\ IsCall("resume") /\ agent_status # "paused" => agent_status' = agent_status
        /\ agent_status' = "error" /\ agent_status # "error" =>
               lastCall'.op = "start" /\ ~lastCall'.ret
        /\ agent_status' = "stopped" /\ agent_status # "stopped" =>
               agent_run.stops > 0 /\ agent_run'.stops < agent_run.stops ]_vars
\* start() was called on a PAUSED agent as the last of MaxCalls calls and
\* returned without effect: the agent is still PAUSED
C26_Witness ==
    /\ agent_status = "paused"
    /\ lastCall.op = "start"
    /\ ~lastCall.ret
    /\ lastCall.id = MaxCalls

\* C27: the finding queue has a fixed capacity, which the findings submitted
\* in a burst (MaxFindings of them) exceed: the number of findings that wait
\* in the queue stays below it, a submission to the full queue blocks or is
\* rejected.
C27_FindingQueueIsBounded == Len(event_queue) < MaxFindings


\* ===================================================== properties: mapper, the generic commands
\* the list returned for the finding holds a command made from template name
MappedFrom(name) ==
    {i \in DOMAIN mapped_commands : mapped_commands[i].command_id = name}

\* C28: for every finding the list map_analysis_to_commands returns holds a
\* log-incident command, of execution mode immediate and priority low.
C28_LogIncidentIsMapped ==
    analysis_result # Nothing =>
        \E i \in MappedFrom("log_incident") :
            /\ mapped_commands[i].execution_mode = "immediate"
            /\ mapped_commands[i].priority = "low"

\* C29: for every finding of risk level high or critical the list
\* map_analysis_to_commands returns holds a send-alert command.
C29_AlertIsMappedForHighRisk ==
    (analysis_result # Nothing
     /\ Lower(analysis_result[1].risk_level) \in {"high", "critical"}) =>
        MappedFrom("send_alert") # {}


\* ===================================================== mapper: validate_command
\* the members of CommandType, by value
CommandType ==
    {"system", "network", "process", "file", "service", "firewall", "log",
     "monitoring", "backup", "notification", "custom"}

\* command_type of the templates of _initialize_command_templates
TemplateCommandType ==
    [ stop_service |-> "service", disable_service |-> "service",
      restart_service |-> "service", collect_logs |-> "log",
      monitor_process |-> "monitoring", send_alert |-> "notification",
      log_incident |-> "log" ]

\* a key of the template dictionary (a str) and a member of CommandType as
\* Python compares them: equal only when of one type and of one value
StrKey(name) == [type |-> "str", value |-> name]
TypeMember(value) == [type |-> "CommandType", value |-> value]

\* key in self.command_templates
InCommandTemplates(key) ==
    \E name \in DOMAIN CommandTemplates : StrKey(name) = key

\* the replacement fields of the template left in the text
RECURSIVE FieldsOf(_)
FieldsOf(text) ==
    IF text = <<>> THEN {}
    ELSE (IF Head(text) \in ReplacementFields THEN {Head(text)} ELSE {})
         \cup FieldsOf(Tail(text))

\* CommandMapper.validate_command: "valid" and the kinds of "errors" of the
\* dictionary it returns ("raises" for the KeyError of the template lookup)
ValidateCommand(command) ==
    LET unsafe == IF IsCommandSafe(command.command) THEN {} ELSE {"dangerous"}
        checked == InCommandTemplates(TypeMember(command.command_type))
        known == command.command_type \in DOMAIN CommandTemplates
        missing == IF checked /\ known
                   THEN {p \in CommandTemplates[command.command_type].required_params :
                            p \in FieldsOf(command.command)}
                   ELSE {}
    IN IF checked /\ ~known THEN [valid |-> FALSE, errors |-> {"raises"}]
       ELSE [valid |-> unsafe = {} /\ missing = {},
             errors |-> unsafe \cup (IF missing = {} THEN {} ELSE {"missing"})]

\* the value the callers of the model give to a replacement field
FieldValue == <<"nginx">>

\* a MappedCommand made from template name as _create_mapped_command makes it,
\* of the given command type, with the replacement fields in resolved filled in
PartlyFormatted(name, command_type, resolved) ==
    [command_type |-> command_type] @@
    MapperCommand(name,
                  Format(CommandTemplates[name].template,
                         [p \in resolved |-> FieldValue]),
                  "medium", "manual", CommandTemplates[name].risk_level,
                  CommandTemplates[name].requires_sudo,
                  CommandTemplates[name].rollback_command, TRUE)

\* validate_command is called on a command
ValidateCommandCall(command) ==
    /\ lastCall' = [op |-> "validate", id |-> 0, ret |-> ValidateCommand(command),
                    command |-> command]
    /\ UNCHANGED <<config, execution_contexts, execution_queue, running_executions,
                   stats, audit, auditVars, worker, process, overdue, canceller,
                   n_submitted, agentVars, mapperVars, callbackVars, lifeVars>>

ValidateNext ==
    \E name \in DOMAIN CommandTemplates, command_type \in CommandType :
        \E resolved \in SUBSET FieldsOf(CommandTemplates[name].template) :
            ValidateCommandCall(PartlyFormatted(name, command_type, resolved))

SpecValidate == Init /\ [][ValidateNext]_vars

\* C30: validate_command reports a command invalid whenever its command
\* string still holds a placeholder of a required parameter of the template
\* it was made from.
C30_UnresolvedPlaceholderIsInvalid ==
    lastCall.op = "validate" =>
        LET command == lastCall.command
            template == CommandTemplates[command.command_id]
        IN (/\ command.command_type = TemplateCommandType[command.command_id]
            /\ \E p \in template.required_params : p \in FieldsOf(command.command))
           => ~lastCall.ret.valid


\* ===================================================== mapper: the command history
\* the default limit of get_command_history, the one size the mapper names
\* for its history
HistoryLimit == 100
\* the calls of the model stop once the history is this long
MaxHistory == 101

\* the findings of the repeated calls: one service, no remediation step
HistoryFindings ==
    {analysis \in MapperFindings :
        /\ analysis.remediation_steps = <<>>
        /\ analysis.service \in {Nothing, Some(StrValue(<<"nginx">>))}}

\* map_analysis_to_commands, called again on the same mapper
MapAnalysisAgain(analysis, context) ==
    /\ Len(command_history) < MaxHistory
    /\ analysis_result' = Some(analysis)
    /\ mapped_commands' = MapAnalysisToCommands(analysis, context)
    /\ command_history' = command_history \o mapped_commands'
    /\ UNCHANGED <<engineVars, agentVars, callbackVars>>

HistoryNext ==
    \E analysis \in HistoryFindings, auto \in BOOLEAN :
        MapAnalysisAgain(analysis, [auto_execute |-> auto])

SpecHistory == Init /\ [][HistoryNext]_vars

\* C31: the command history of the mapper never grows past a fixed bound,
\* whatever the number of map_analysis_to_commands calls (the bound taken is
\* the limit of get_command_history).
C31_CommandHistoryIsBounded == Len(command_history) <= HistoryLimit


\* ============================================ properties: cancelling a queued command
\* cancel_command has marked c CANCELLED before any executor thread was given it
CancelledBeforeStart(c) ==
    /\ Exists(c)
    /\ StatusOf(c) = "cancelled"
    /\ worker[c] = "idle"
    /\ <<"COMMAND_CANCELLED", c, CancelReason("api")>> \in audit

\* C32: a command that cancel_command cancelled while it was queued and not
\* started is not executed afterwards: the monitor does not hand it to an
\* executor thread (whose first statement sets RUNNING), whether it was
\* approved before the cancellation or after it.
C32_CancelledWhileQueuedNeverRuns ==
    [][ \A c \in CommandIds : CancelledBeforeStart(c) => ~HandsToExecutor(c) ]_vars


\* ===================================================== mapper: rollback commands
\* findings about a service, whose name may carry shell operators
RollbackFindings ==
    [analysis_summary : {<<"Service Crash">>, <<"Service Compromise">>},
     risk_level : {"medium", "HIGH"},
     remediation_steps : {<<>>} \cup {<<step>> : step \in StepFragments},
     service : {Nothing, Some(OtherValue(<<"None">>)), Some(StrValue(<<"nginx">>)),
                Some(StrValue(<<"nginx", ";", " ", "id">>)),
                Some(StrValue(<<"$(", "id", ")">>))}]

RollbackNext ==
    \E analysis \in RollbackFindings, auto \in BOOLEAN :
        MapAnalysis(analysis, [auto_execute |-> auto])

SpecRollback == Init /\ [][RollbackNext]_vars

\* C33: the rollback command of every mapped command passes the safety check
\* the primary command passed, so that it holds no shell operator, even when
\* the parameter values of the finding hold such characters.
C33_RollbackCommandIsSafe ==
    \A i \in DOMAIN mapped_commands :
        mapped_commands[i].rollback_command # Nothing =>
            IsCommandSafe(mapped_commands[i].rollback_command[1])


\* ================================================== submit_command, statement by statement
\* submit_command beside the monitor thread and the executor threads: the
\* context is stored and its identifier queued (with the lock-free statements
\* before them), and the COMMAND_SUBMITTED entry is written by a later
\* statement of the caller.

\* submit_command up to execution_queue.put: context, auto-approval, the
\* context map, the queue
SubmitStore(command, id) ==
    /\ submitting = Nothing
    /\ n_submitted < MaxQueued
    /\ ~Exists(id)
    /\ LET st == SubmitAs(SubmitState, config, command, id)
       IN /\ execution_contexts' = st.execution_contexts
          /\ execution_queue' = st.execution_queue
          /\ stats' = st.stats
          /\ n_submitted' = st.n_submitted
    /\ submitting' = Some(id)
    /\ UNCHANGED <<config, running_executions, audit, auditVars, worker, process,
                   overdue, canceller, lastCall, agentVars, mapperVars, callbackVars,
                   is_running, stopping, monitor_pc, agent_status, iterating,
                   agent_run, processor_pc>>

\* the rest of submit_command: _audit_log("COMMAND_SUBMITTED", ...) and the
\* return of the identifier
SubmitAudit ==
    /\ submitting # Nothing
    /\ AuditLog("api", "COMMAND_SUBMITTED", submitting[1])
    /\ lastCall' = [op |-> "submit", id |-> submitting[1], ret |-> TRUE]
    /\ submitting' = Nothing
    /\ UNCHANGED <<config, execution_contexts, execution_queue, running_executions,
                   stats, worker, process, overdue, canceller, n_submitted,
                   agentVars, mapperVars, callbackVars,
                   is_running, stopping, monitor_pc, agent_status, iterating,
                   agent_run, processor_pc>>

SubmitRaceNext ==
    \/ \E command \in QueueCommands, id \in QueueIds : SubmitStore(command, id)
    \/ SubmitAudit
    \/ \E c \in QueueIds : ApproveCommand(c, "alice")
    \/ MonitorDispatch
    \/ \E c \in QueueIds : CallbacksWorker(c)

SpecSubmitRace == QueueInit /\ [][SubmitRaceNext]_vars

\* C34: the COMMAND_SUBMITTED audit entry of a command is written before its
\* COMMAND_STARTED entry, however submit_command interleaves with the monitor
\* and the executor threads.
C34_SubmittedIsAuditedBeforeStarted ==
    [][ \A c \in QueueIds :
            (/\ AuditEntry("COMMAND_STARTED", c) \notin audit
             /\ AuditEntry("COMMAND_STARTED", c) \in audit')
            => AuditEntry("COMMAND_SUBMITTED", c) \in audit ]_vars


\* ================================================== the event processor task
\* One _event_processor task of a running agent beside pause(), resume() and
\* process_security_event: the task yields to the event loop at each await, so
\* that the calls run between its status test and the end of its wait on the
\* queue.

\* the smoothed averages are kept in units of 1 / Scale: a sample is a whole
\* number, and each smoothing step adds one decimal place
Scale == 10 ^ MaxFindings
\* processing times a round can take (in whole seconds)
ResponseTimes == {1, 3}
\* the answers of the analysis service to the findings submitted here
ProcessorEvents ==
    {Nothing} \cup {Some([confidence_score |-> c, risk_level |-> "low"]) : c \in {70, 91}}

\* alpha * sample + (1 - alpha) * average, with alpha = 0.1
Smoothed(sample, average) == (sample * Scale + 9 * average) \div 10

\* AISecurityAgent._update_response_time, called when total_events_processed
\* already counts the event
UpdateResponseTime(total_events_processed, response_time, average) ==
    IF total_events_processed = 0 THEN response_time * Scale
    ELSE Smoothed(response_time, average)

\* AISecurityAgent._update_confidence_score, called when total_decisions_made
\* already counts the decision
UpdateConfidenceScore(total_decisions_made, confidence_score, average) ==
    IF total_decisions_made = 1 THEN confidence_score * Scale
    ELSE Smoothed(confidence_score, average)

\* the loop test and the status test of _event_processor: the task ends when
\* is_running is cleared, sleeps a second and tests again while PAUSED, and
\* else goes on to wait for an event
ProcessorTest ==
    /\ processor_pc = "test"
    /\ processor_pc' = IF ~agent_run.is_running THEN "stopped"
                       ELSE IF agent_status = "paused" THEN "test"
                       ELSE "get"
    /\ UNCHANGED <<config, execution_contexts, execution_queue, running_executions,
                   stats, audit, auditVars, worker, process, overdue, canceller,
                   lastCall, n_submitted, agentVars, mapperVars, callbackVars,
                   is_running, stopping, monitor_pc, agent_status, iterating,
                   agent_run, submitting>>

\* "await asyncio.wait_for(self.event_queue.get(), timeout=1.0)" ends with an
\* event, and the round of the loop on it: analysis and decision, the counters,
\* the averages, the history, the decision callback (the mapper returns no
\* command for these findings)
ProcessorGet(response_time) ==
    /\ processor_pc = "get"
    /\ ProcessEventOn(<<>>)
    /\ LET decision == AnalyzeAndDecide(mode, agent_config, Head(event_queue), <<>>)
       IN averages' =
              [response_time |->
                   UpdateResponseTime(metrics'.total_events_processed, response_time,
                                      averages.response_time),
               confidence_score |->
                   IF decision = Nothing THEN averages.confidence_score
                   ELSE UpdateConfidenceScore(metrics'.total_decisions_made,
                                              decision[1].confidence_score,
                                              averages.confidence_score)]
    /\ processor_pc' = "test"
    /\ UNCHANGED <<is_running, stopping, monitor_pc, agent_status, iterating,
                   agent_run, submitting>>

\* the wait ends with asyncio.TimeoutError: "continue"
ProcessorTimeout ==
    /\ processor_pc = "get"
    /\ event_queue = <<>>
    /\ processor_pc' = "test"
    /\ UNCHANGED <<config, execution_contexts, execution_queue, running_executions,
                   stats, audit, auditVars, worker, process, overdue, canceller,
                   lastCall, n_submitted, agentVars, mapperVars, callbackVars,
                   is_running, stopping, monitor_pc, agent_status, iterating,
                   agent_run, submitting>>

ProcessorNext ==
    \/ AgentPause
    \/ AgentResume
    \/ \E analysis \in ProcessorEvents : PutEvent(analysis)
    \/ ProcessorTest
    \/ \E response_time \in ResponseTimes : ProcessorGet(response_time)
    \/ ProcessorTimeout

SpecProcessor == Init /\ [][ProcessorNext]_vars

\* C35: while the status is PAUSED no finding leaves the finding queue to be
\* analysed, however pause() interleaves with the processor task.
C35_NothingTakenWhilePaused ==
    [][ Len(event_queue') < Len(event_queue) => agent_status # "paused" ]_vars


\* ================================================== properties: engine statistics
\* no executor thread is inside _execute_command
NoExecutionUnderWay == ActiveWorkers = {}

\* C36: once the executions under way have finished, total_executed equals
\* successful_executions + failed_executions: every finished execution is
\* counted once, as a success or as a failure.
C36_TotalIsSuccessesPlusFailures ==
    NoExecutionUnderWay =>
        stats.total_executed = stats.successful_executions + stats.failed_executions


\* ---- the order and the length of the returned list (command_mapper.py 519-524)
MaxSteps == 12

\* a step that yields a custom command, and one too short to yield any
CommandStep == <<"<run>", " ", "<bt>", "uptime", "<bt>">>
ShortStep == <<"uptime">>

\* lists of steps: all of them yield a command, or the third to the tenth
\* do not
StepLists ==
    { [i \in 1..n |-> IF i \in skipped THEN ShortStep ELSE CommandStep] :
          n \in 0..MaxSteps, skipped \in {{}, 3..10} }

SortFindings ==
    [analysis_summary : {<<"routine">>, <<"Service Crash">>, <<"Service Compromise">>,
                         <<"Service Crash", " ", "Service Compromise">>},
     risk_level : {"low", "medium", "HIGH", "Critical"},
     remediation_steps : StepLists,
     service : {Nothing, Some(StrValue(<<"nginx">>))}]

SortNext ==
    \E analysis \in SortFindings, auto \in BOOLEAN :
        MapAnalysis(analysis, [auto_execute |-> auto])

SpecSort == Init /\ [][SortNext]_vars

\* the sort key of the claim: priority, then execution mode, then identifier
KeyNotAfter(c, d) ==
    \/ PriorityWeight(c.priority) > PriorityWeight(d.priority)
    \/ /\ PriorityWeight(c.priority) = PriorityWeight(d.priority)
       /\ \/ ExecutionWeight(c.execution_mode) > ExecutionWeight(d.execution_mode)
          \/ /\ ExecutionWeight(c.execution_mode) = ExecutionWeight(d.execution_mode)
             /\ IdRank(c.command_id) <= IdRank(d.command_id)

\* C37: the list map_analysis_to_commands returns has at most
\* max_commands_per_analysis entries and is ordered by priority descending
\* (critical > high > medium > low > info), then by execution mode descending
\* (immediate > conditional > scheduled > manual), then by command id
\* ascending.
C37_ReturnedListIsCappedAndSorted ==
    /\ Len(mapped_commands) <= MaxCommandsPerAnalysis
    /\ \A i, j \in DOMAIN mapped_commands :
           i < j => KeyNotAfter(mapped_commands[i], mapped_commands[j])
    /\ \A i \in DOMAIN mapped_commands :
           /\ mapped_commands[i].priority \in {"critical", "high", "medium", "low", "info"}
           /\ mapped_commands[i].execution_mode
                  \in {"immediate", "conditional", "scheduled", "manual"}

\* more than ten candidates were created; the list returned holds ten, of
\* more than one priority and more than one execution mode
C37_CappedAndSortedList ==
    /\ analysis_result # Nothing
    /\ Len(analysis_result[1].remediation_steps) > MaxCommandsPerAnalysis
    /\ Len(mapped_commands) = MaxCommandsPerAnalysis
    /\ \E i, j \in DOMAIN mapped_commands :
           /\ mapped_commands[i].priority # mapped_commands[j].priority
           /\ mapped_commands[i].execution_mode # mapped_commands[j].execution_mode


\* ---- one candidate failing leaves the others (command_mapper.py 490-511)
\* the candidates of the rules the finding matched: rule number and command
\* number
RuleCandidates(analysis) ==
    LET rules == MatchMappingRules(analysis.analysis_summary, analysis.remediation_steps)
    IN { [name |-> rules[r].commands[n], priority |-> rules[r].priority,
          execution_mode |-> rules[r].execution_mode, rule |-> r, number |-> n] :
             r \in DOMAIN rules, n \in 1..3 }

CandidateCommand(candidate, analysis) ==
    CreateMappedCommand(candidate.name, analysis, candidate.priority,
                        candidate.execution_mode)

IsMapped(command) == \E i \in DOMAIN mapped_commands : mapped_commands[i] = command

RoundDone == metrics'.total_events_processed = metrics.total_events_processed + 1
\* the round emitted a decision
DecisionEmitted == metrics'.total_decisions_made = metrics.total_decisions_made + 1

\* the average of the processing times after a round: the sample itself after
\* the first round, 0.1 * sample + 0.9 * previous after a later one
ResponseTimeIsSmoothed ==
    \E sample \in ResponseTimes :
        averages'.response_time =
            IF metrics.total_events_processed = 0 THEN sample * Scale
            ELSE Smoothed(sample, averages.response_time)

\* the same for the confidence of the decisions emitted
ConfidenceIsSmoothed ==
    IF DecisionEmitted
    THEN averages'.confidence_score =
             IF metrics.total_decisions_made = 0
             THEN decision_history'[Len(decision_history')].confidence_score * Scale
             ELSE Smoothed(decision_history'[Len(decision_history')].confidence_score,
                           averages.confidence_score)
    ELSE averages'.confidence_score = averages.confidence_score

\* the confidence half of the rule alone
ConfidenceAverageIsSmoothed == [][RoundDone => ConfidenceIsSmoothed]_vars

\* C39: the smoothed average response time equals the first sample after the
\* first processed event and 0.1 * sample + 0.9 * previous average after each
\* later one; the average confidence follows the same rule over the decisions
\* emitted.
C39_AveragesAreSeededThenSmoothed ==
    [][RoundDone => ResponseTimeIsSmoothed /\ ConfidenceIsSmoothed]_vars


\* ---- the decision history (ai_agent.py 727-733, 817-820)
\* values update_config sets max_decision_history to
HistoryCaps == {0, 1, 2}

\* AISecurityAgent.update_config, for max_decision_history: the dictionary is
\* updated, the history is left as it is
UpdateMaxDecisionHistory(cap) ==
    /\ agent_config.max_decision_history # cap
    /\ agent_config' = [agent_config EXCEPT !.max_decision_history = cap]
    /\ UNCHANGED <<engineVars, mode, decision_history, metrics, averages, event_queue,
                   mapperVars, callbackVars>>

DecisionsNext ==
    \/ \E analysis \in ProcessorEvents : PutEvent(analysis)
    \/ TakeEvent
    \/ \E cap \in HistoryCaps : UpdateMaxDecisionHistory(cap)

SpecDecisions == Init /\ [][DecisionsNext]_vars

\* the n most recent entries of a list, in their order
MostRecent(list, n) ==
    IF n >= Len(list) THEN list ELSE SubSeq(list, Len(list) - n + 1, Len(list))

\* the decision the round emits
EmittedDecision == AnalyzeAndDecide(mode, agent_config, Head(event_queue), <<>>)[1]

\* after a round that emitted a decision the history is made of the most
\* recent max_decision_history decisions, the new one last
HistoryIsMostRecent ==
    decision_history' = MostRecent(Append(decision_history, EmittedDecision),
                                   agent_config.max_decision_history)

====
